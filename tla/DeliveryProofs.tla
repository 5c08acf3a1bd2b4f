--------------------------- MODULE DeliveryProofs ---------------------------
(***************************************************************************)
(* Theorems about Delivery for every value of its constants, with proofs.  *)
(***************************************************************************)
EXTENDS Delivery, FiniteSetTheorems, TLAPS

-----------------------------------------------------------------------------
(* Types.                                                                  *)

LEMMA ChangedType == Changed \in [Works -> SUBSET Paths]
  <1> SUFFICES ASSUME NEW w \in Works PROVE ToSet(Receipts[w]) \in SUBSET Paths
    BY DEF Changed
  <1>1. Receipts[w] \in Seq(Paths)
    BY WorkAssumption
  <1> QED
    BY <1>1 DEF ToSet

(* The steps that only a delivery past the gate takes.                     *)
Gated(d) == calls[d].phase \in Working \ {"record"}

(* TypeOK; a call has a work once it has begun, and nothing before; past   *)
(* the gate it is one that may pass, and its branch is not the base branch. *)
TypeInv ==
    /\ TypeOK
    /\ \A d \in Deliveries :
         /\ IF At(d, "idle") THEN calls[d] = IdleCall ELSE WorkOf(d) \in Works
         /\ Gated(d) => /\ BranchOf[WorkOf(d)] # Base /\ Changed[WorkOf(d)] # {}
                        /\ WorkOf(d) \in Passable

LEMMA InitTypeInv == Init => TypeInv
  <1> SUFFICES ASSUME Init PROVE TypeInv
    OBVIOUS
  <1> USE DeliveryAssumption
  <1>1. NoFiles \in Files
    BY DEF NoFiles, Files
  <1>2. IdleCall \in Call
    BY DEF IdleCall, Call
  <1> QED
    BY <1>1, <1>2 DEF Init, TypeInv, TypeOK, Branch, At, Gated, Working, IdleCall

(* What the updates of a call do to its record, and to no other.           *)
Changes(d, phase) ==
    /\ calls'[d] \in Call /\ calls' = [calls EXCEPT ![d] = calls'[d]]
    /\ calls'[d].phase = phase /\ calls'[d].work = calls[d].work

LEMMA SetCall ==
    ASSUME TypeOK, NEW d \in Deliveries
    PROVE  /\ \A phase \in Working \cup Ended : Proceed(d, phase) =>
                /\ Changes(d, phase) /\ calls'[d].commit = calls[d].commit
                /\ calls'[d].pull = calls[d].pull /\ calls'[d].status = calls[d].status
           /\ Raise(d) =>
                /\ Changes(d, "record") /\ calls'[d].commit = calls[d].commit
                /\ calls'[d].pull = calls[d].pull /\ calls'[d].status = "FAILED"
           /\ \A phase \in Ended : End(d, phase) =>
                /\ Changes(d, phase) /\ calls'[d].commit = calls[d].commit
                /\ ~calls'[d].pull /\ calls'[d].status = "FAILED"
  <1>1. calls \in [Deliveries -> Call] /\ calls[d] \in Call
    BY DEF TypeOK
  <1>2. ASSUME NEW phase \in Working \cup Ended, Proceed(d, phase)
        PROVE  /\ Changes(d, phase) /\ calls'[d].commit = calls[d].commit
               /\ calls'[d].pull = calls[d].pull /\ calls'[d].status = calls[d].status
    <2> DEFINE s == [calls[d] EXCEPT !.phase = phase]
    <2>1. calls' = [calls EXCEPT ![d] = s]
      BY <1>1, <1>2 DEF Proceed
    <2>2. calls'[d] = s /\ s \in Call
      BY <1>1, <2>1 DEF Call
    <2> QED
      BY <1>1, <2>1, <2>2 DEF Changes, Call
  <1>3. ASSUME Raise(d)
        PROVE  /\ Changes(d, "record") /\ calls'[d].commit = calls[d].commit
               /\ calls'[d].pull = calls[d].pull /\ calls'[d].status = "FAILED"
    <2> DEFINE s == [calls[d] EXCEPT !.phase = "record", !.status = "FAILED"]
    <2>1. calls' = [calls EXCEPT ![d] = s]
      BY <1>1, <1>3 DEF Raise
    <2>2. calls'[d] = s /\ s \in Call
      BY <1>1, <2>1 DEF Call, Working
    <2> QED
      BY <1>1, <2>1, <2>2 DEF Changes, Call
  <1>4. ASSUME NEW phase \in Ended, End(d, phase)
        PROVE  /\ Changes(d, phase) /\ calls'[d].commit = calls[d].commit
               /\ ~calls'[d].pull /\ calls'[d].status = "FAILED"
    <2> DEFINE s == [calls[d] EXCEPT !.phase = phase, !.pull = FALSE, !.status = "FAILED"]
    <2>1. calls' = [calls EXCEPT ![d] = s]
      BY <1>1, <1>4 DEF End
    <2>2. calls'[d] = s /\ s \in Call
      BY <1>1, <2>1 DEF Call
    <2> QED
      BY <1>1, <2>1, <2>2 DEF Changes, Call
  <1> QED
    BY <1>2, <1>3, <1>4

(* A step of a call leaves its work alone, and the commit but where it is  *)
(* made; each stage follows the one before it.                             *)
Precedes(phase, next) ==
    <<phase, next>> \in {<<"inspect", "branch">>, <<"branch", "stage">>, <<"stage", "commit">>,
                         <<"commit", "push">>, <<"push", "pull">>, <<"pull", "comment">>}

LEMMA StepShape ==
    ASSUME TypeInv, NEW d \in Deliveries, Step(d) \/ Die(d)
    PROVE  /\ Underway(d)
           /\ calls'[d] \in Call /\ calls' = [calls EXCEPT ![d] = calls'[d]]
           /\ calls'[d].work = calls[d].work
           /\ \/ calls'[d].phase \in Ended
              \/ calls'[d].phase = "record"
              \/ Precedes(calls[d].phase, calls'[d].phase)
           /\ \/ calls'[d].commit = calls[d].commit
              \/ Commit(d) /\ calls'[d].phase = "push"
  <1> USE DEF Underway, Working, Ended, Precedes, Changes, At
  <1>1. TypeOK /\ calls \in [Deliveries -> Call] /\ calls[d] \in Call
    BY DEF TypeInv, TypeOK
  <1>2. CASE Inspect(d)
    BY <1>1, <1>2, SetCall DEF Inspect
  <1>3. CASE TakeBranch(d)
    BY <1>1, <1>3, SetCall DEF TakeBranch
  <1>4. CASE StagePaths(d)
    BY <1>1, <1>4, SetCall DEF StagePaths
  <1>5. CASE Commit(d)
    <2>1. CASE Committed(d, head)
      <3> DEFINE made == [branch |-> head, paths |-> StagedPaths]
                 s == [calls[d] EXCEPT !.phase = "push", !.commit = made]
      <3>1. made \in CommitMade
        BY DEF CommitMade, StagedPaths, TypeInv, TypeOK
      <3>2. calls' = [calls EXCEPT ![d] = s]
        BY <1>1, <2>1 DEF Committed
      <3>3. s \in Call /\ s.phase = "push" /\ s.work = calls[d].work
        BY <1>1, <3>1 DEF Call
      <3> HIDE DEF s
      <3>4. calls'[d] = s
        BY <1>1, <3>2
      <3> QED
        BY <1>5, <3>2, <3>3, <3>4 DEF Commit
    <2> QED
      BY <1>1, <1>5, <2>1, SetCall DEF Commit
  <1>6. CASE Push(d)
    BY <1>1, <1>6, SetCall DEF Push
  <1>7. CASE OpenPullRequest(d)
    <2>1. CASE calls' = [calls EXCEPT ![d].phase = "comment", ![d].pull = TRUE]
      <3> DEFINE s == [calls[d] EXCEPT !.phase = "comment", !.pull = TRUE]
      <3>1. calls' = [calls EXCEPT ![d] = s]
        BY <1>1, <2>1
      <3>2. s \in Call /\ s.phase = "comment" /\ s.work = calls[d].work
            /\ s.commit = calls[d].commit
        BY <1>1 DEF Call
      <3> HIDE DEF s
      <3>3. calls'[d] = s
        BY <1>1, <3>1
      <3> QED
        BY <1>7, <3>1, <3>2, <3>3 DEF OpenPullRequest
    <2> QED
      BY <1>1, <1>7, <2>1, SetCall DEF OpenPullRequest
  <1>8. CASE Comment(d)
    <2>1. CASE calls' = [calls EXCEPT ![d].phase = "record", ![d].status = "SUCCEEDED"]
      <3> DEFINE s == [calls[d] EXCEPT !.phase = "record", !.status = "SUCCEEDED"]
      <3>1. calls' = [calls EXCEPT ![d] = s]
        BY <1>1, <2>1
      <3>2. s \in Call /\ s.phase = "record" /\ s.work = calls[d].work
            /\ s.commit = calls[d].commit
        BY <1>1 DEF Call
      <3> HIDE DEF s
      <3>3. calls'[d] = s
        BY <1>1, <3>1
      <3> QED
        BY <1>8, <3>1, <3>2, <3>3 DEF Comment
    <2> QED
      BY <1>1, <1>8, <2>1, SetCall DEF Comment
  <1>9. CASE Record(d)
    BY <1>1, <1>9, SetCall DEF Record, RecordingFails
  <1>10. CASE Die(d)
    BY <1>1, <1>10, SetCall DEF Die
  <1> QED
    BY <1>2, <1>3, <1>4, <1>5, <1>6, <1>7, <1>8, <1>9, <1>10 DEF Step

(* A delivery that begins has its work and nothing else yet; past the gate *)
(* the work changes files and has a branch of its own.                     *)
LEMMA BeginShape ==
    ASSUME TypeInv, NEW d \in Deliveries, NEW w \in Works, Begin(d, w)
    PROVE  /\ calls'[d] \in Call /\ calls' = [calls EXCEPT ![d] = calls'[d]]
           /\ calls[d] = IdleCall /\ w \in applied /\ ~KeyHeld(w)
           /\ calls'[d].work = w /\ calls'[d].commit = None
           /\ calls'[d].pull = FALSE /\ calls'[d].status = "FAILED"
           /\ calls'[d].phase \in {"inspect", "record"}
           /\ calls'[d].phase = "inspect" =>
                BranchOf[w] # Base /\ Changed[w] # {} /\ w \in Passable
  <1>1. calls \in [Deliveries -> Call] /\ At(d, "idle") /\ IdleCall \in Call
    BY DEF TypeInv, TypeOK, Begin, IdleCall, Call
  <1>2. PICK granted, protected, answered \in BOOLEAN :
          calls' = [calls EXCEPT ![d] = [IdleCall EXCEPT !.work = w,
                      !.phase = IF answered /\ MayDeliver(w, granted, protected)
                                THEN "inspect" ELSE "record"]]
    BY Zenon DEF Begin
  <1> DEFINE s == [IdleCall EXCEPT !.work = w,
                     !.phase = IF answered /\ MayDeliver(w, granted, protected)
                               THEN "inspect" ELSE "record"]
  <1>3. s \in Call /\ calls'[d] = s
    BY <1>1, <1>2 DEF IdleCall, Call, Working
  <1>4. MayDeliver(w, granted, protected) =>
          BranchOf[w] # Base /\ Changed[w] # {} /\ w \in Passable
    <2> SUFFICES ASSUME MayDeliver(w, granted, protected) PROVE MayDeliver(w, TRUE, TRUE)
      BY DEF Passable, MayDeliver
    <2>1. ~GovernanceBlocks(w, TRUE)
      BY DEF MayDeliver, GovernanceBlocks
    <2> QED
      BY <2>1 DEF MayDeliver
  <1>5. /\ s.phase \in {"inspect", "record"} /\ s.work = w /\ s.commit = None
        /\ s.pull = FALSE /\ s.status = "FAILED"
        /\ s.phase = "inspect" => MayDeliver(w, granted, protected)
    BY DEF IdleCall
  <1> HIDE DEF s
  <1>6. calls' = [calls EXCEPT ![d] = calls'[d]]
    BY <1>2, <1>3 DEF s
  <1>7. calls'[d].phase = "inspect" => BranchOf[w] # Base /\ Changed[w] # {} /\ w \in Passable
    BY <1>3, <1>4, <1>5
  <1>8. calls[d] = IdleCall
    BY <1>1 DEF TypeInv
  <1>9. w \in applied /\ ~KeyHeld(w)
    BY DEF Begin
  <1> QED
    BY <1>3, <1>5, <1>6, <1>7, <1>8, <1>9

LEMMA NextTypeInv == TypeInv /\ [Next]_vars => TypeInv'
  <1> SUFFICES ASSUME TypeInv, [Next]_vars PROVE TypeInv'
    OBVIOUS
  <1> USE DEF TypeInv, vars, git, github, others, WorkOf
  <1>1. calls \in [Deliveries -> Call]
    BY DEF TypeOK
  <1>2. ASSUME NEW d \in Deliveries, NEW w \in Works, Begin(d, w)
        PROVE  TypeInv'
    <2>1. UNCHANGED <<git, github, others, rows>>
      BY <1>2, Zenon DEF Begin
    <2>2. /\ calls'[d] \in Call /\ calls' = [calls EXCEPT ![d] = calls'[d]]
          /\ calls'[d].work = w /\ calls'[d].phase \in {"inspect", "record"}
          /\ calls'[d].phase = "inspect" =>
               BranchOf[w] # Base /\ Changed[w] # {} /\ w \in Passable
      BY <1>2, BeginShape
    <2>3. calls' \in [Deliveries -> Call] /\ \A e \in Deliveries \ {d} : calls'[e] = calls[e]
      BY <1>1, <2>2
    <2> QED
      BY <1>1, <2>1, <2>2, <2>3 DEF TypeOK, At, Gated, Working, IdleCall
  <1>3. ASSUME NEW d \in Deliveries, Step(d) \/ Die(d)
        PROVE  TypeInv'
    <2>1. /\ Underway(d)
          /\ calls'[d] \in Call /\ calls' = [calls EXCEPT ![d] = calls'[d]]
          /\ calls'[d].work = calls[d].work
          /\ \/ calls'[d].phase \in Ended
             \/ calls'[d].phase = "record"
             \/ Precedes(calls[d].phase, calls'[d].phase)
      BY <1>3, StepShape
    <2>2. WorkOf(d) \in Works /\ BranchOf[WorkOf(d)] \in Branches
      BY <2>1, DeliveryAssumption DEF Underway, At, Working
    <2>3. calls' \in [Deliveries -> Call]
      BY <1>1, <2>1
    <2>4. \A e \in Deliveries :
             /\ IF At(e, "idle")' THEN calls'[e] = IdleCall ELSE calls'[e].work \in Works
             /\ Gated(e)' => /\ BranchOf[calls'[e].work] # Base /\ Changed[calls'[e].work] # {}
                             /\ calls'[e].work \in Passable
      BY <1>1, <2>1, <2>2 DEF Underway, At, Gated, Working, Ended, Precedes
    <2>5. TypeOK'
      <3>1. CASE Inspect(d) \/ Die(d)
        BY <2>3, <3>1 DEF Inspect, Die, TypeOK
      <3>2. CASE TakeBranch(d)
        <4>1. [branches[head] EXCEPT !.exists = TRUE] \in Branch
          BY DEF TypeOK, Branch
        <4> QED
          BY <2>2, <2>3, <3>2, <4>1 DEF TakeBranch, NewBranch, TypeOK
      <3>3. CASE StagePaths(d)
        BY <2>3, <3>3 DEF StagePaths, TypeOK, Files
      <3>4. CASE Commit(d)
        <4>1. CASE Committed(d, head)
          <5> DEFINE b == [branches[head] EXCEPT !.files = index, !.commits = @ \cup {d}]
          <5>1. b \in Branch
            BY DEF TypeOK, Branch
          <5>2. branches' = [branches EXCEPT ![head] = b]
            BY <4>1 DEF TypeOK, Committed
          <5> QED
            BY <2>3, <3>4, <5>1, <5>2 DEF Commit, TypeOK
        <4> QED
          BY <2>3, <3>4, <4>1 DEF Commit, TypeOK
      <3>5. CASE Push(d)
        <4>1. branches[BranchOf[WorkOf(d)]].commits \in SUBSET Deliveries
          BY <2>2 DEF TypeOK, Branch
        <4> QED
          BY <2>2, <2>3, <3>5, <4>1 DEF Push, TypeOK
      <3>6. CASE OpenPullRequest(d)
        BY <2>2, <2>3, <3>6 DEF OpenPullRequest, TypeOK
      <3>7. CASE Comment(d)
        BY <2>3, <3>7 DEF Comment, TypeOK
      <3>8. CASE Record(d)
        <4>1. calls[d] \in Call /\ NewRow(d) \in Row
          BY <1>1 DEF NewRow, Row, Call
        <4> QED
          BY <2>3, <3>8, <4>1 DEF Record, TypeOK
      <3> QED
        BY <1>3, <3>1, <3>2, <3>3, <3>4, <3>5, <3>6, <3>7, <3>8 DEF Step
    <2> QED
      BY <2>4, <2>5
  <1>4. ASSUME NEW w \in Works, Apply(w)
        PROVE  TypeInv'
    BY <1>4 DEF Apply, TypeOK, Files, At, Gated
  <1>5. ASSUME NEW w \in Works, PlanBranch(w)
        PROVE  TypeInv'
    <2>1. [branches[head] EXCEPT !.exists = TRUE] \in Branch /\ BranchOf[w] \in Branches
      BY DeliveryAssumption DEF TypeOK, Branch
    <2> QED
      BY <1>5, <2>1 DEF PlanBranch, NewBranch, SwitchedUnder, TypeOK, At, Gated
  <1>6. ASSUME NEW b \in Branches, CheckOut(b)
        PROVE  TypeInv'
    <2>1. tree' \in Files /\ index' \in Files /\ head' \in Branches
      BY <1>6 DEF CheckOut, TypeOK, Branch, Files
    <2> QED
      BY <1>6, <2>1 DEF CheckOut, SwitchedUnder, TypeOK, At, Gated
  <1>7. CASE UNCHANGED vars
    BY <1>7 DEF TypeOK, At, Gated
  <1> QED
    BY <1>2, <1>3, <1>4, <1>5, <1>6, <1>7, DeliveryAssumption DEF Next

(* Every variable keeps its type.                                          *)
THEOREM TypeCorrect == Spec => []TypeOK
  <1>1. TypeInv => TypeOK
    BY DEF TypeInv
  <1> QED
    BY <1>1, InitTypeInv, NextTypeInv, PTL DEF Spec

-----------------------------------------------------------------------------
(* The base branch.                                                        *)

(* From the time it has its branch until it has committed, a delivery does *)
(* not find the base branch checked out, whichever other deliveries take a *)
(* branch, unless somebody else checked one out.                           *)
BaseInv ==
    /\ BaseUntouched /\ branches[Base].exists
    /\ \A d \in Deliveries :
         calls[d].phase \in {"stage", "commit"} => head # Base \/ d \in interrupted

LEMMA NextBaseInv == TypeInv /\ BaseInv /\ [Next]_vars => BaseInv'
  <1> SUFFICES ASSUME TypeInv, BaseInv, [Next]_vars PROVE BaseInv'
    OBVIOUS
  <1> USE DeliveryAssumption DEF BaseInv, BaseUntouched, vars, git, github, others
  <1>1. TypeOK /\ calls \in [Deliveries -> Call]
    BY DEF TypeInv, TypeOK
  <1>2. ASSUME NEW d \in Deliveries, NEW w \in Works, Begin(d, w)
        PROVE  BaseInv'
    <2>1. UNCHANGED <<git, github, others, rows>>
      BY <1>2, Zenon DEF Begin
    <2> QED
      BY <1>1, <1>2, <2>1, BeginShape
  <1>3. ASSUME NEW d \in Deliveries, Step(d) \/ Die(d)
        PROVE  BaseInv'
    <2>1. /\ Underway(d)
          /\ calls' = [calls EXCEPT ![d] = calls'[d]]
          /\ \/ calls'[d].phase \in Ended
             \/ calls'[d].phase = "record"
             \/ Precedes(calls[d].phase, calls'[d].phase)
      BY <1>3, StepShape
    <2>2. WorkOf(d) \in Works /\ BranchOf[WorkOf(d)] \in Branches
      BY <2>1 DEF TypeInv, Underway, At, Working
    <2>3. /\ \A e \in Deliveries \ {d} : calls'[e] = calls[e]
          /\ calls'[d].phase = "commit" => calls[d].phase = "stage"
          /\ calls'[d].phase = "stage" => calls[d].phase = "branch"
      BY <1>1, <2>1 DEF Ended, Precedes
    <2>4. Gated(d) => BranchOf[WorkOf(d)] # Base
      BY DEF TypeInv
    <2>5. CASE Inspect(d) \/ Die(d) \/ StagePaths(d) \/ Comment(d) \/ Record(d)
      <3>1. UNCHANGED <<head, branches, remote, pulls, interrupted>>
        BY <2>5 DEF Inspect, Die, StagePaths, Comment, Record
      <3>2. Die(d) => calls'[d].phase = "dead"
        BY <1>1, SetCall DEF Die, Changes, Ended
      <3>3. Die(d) \/ calls[d].phase # "branch"
        BY <2>5 DEF Inspect, StagePaths, Comment, Record, At
      <3> QED
        BY <2>3, <3>1, <3>2, <3>3
    <2>6. CASE TakeBranch(d)
      <3>1. BranchOf[WorkOf(d)] # Base
        BY <2>4, <2>6 DEF TakeBranch, At, Gated, Working
      <3>2. branches'[Base] = branches[Base] /\ UNCHANGED <<remote, pulls, interrupted>>
        BY <1>1, <2>2, <2>6, <3>1 DEF TakeBranch, NewBranch, TypeOK
      <3>3. head' # Base \/ (UNCHANGED head /\ Raise(d))
        BY <2>6, <3>1 DEF TakeBranch, NewBranch
      <3>4. Raise(d) => calls'[d].phase = "record"
        BY <1>1, SetCall DEF Changes
      <3> QED
        BY <2>3, <3>2, <3>3, <3>4
    <2>7. CASE Commit(d)
      <3>1. (head # Base \/ d \in interrupted) /\ UNCHANGED <<head, remote, pulls, interrupted>>
        BY <2>7 DEF Commit, At
      <3>2. /\ branches'[Base].commits \subseteq branches[Base].commits \cup {d}
            /\ branches'[Base].exists
            /\ head # Base => branches'[Base] = branches[Base]
        <4>1. branches \in [Branches -> Branch] /\ head \in Branches
          BY <1>1 DEF TypeOK
        <4>2. CASE UNCHANGED branches
          BY <4>2
        <4>3. CASE Committed(d, head)
          <5> DEFINE b == [branches[head] EXCEPT !.files = index, !.commits = @ \cup {d}]
          <5>1. branches' = [branches EXCEPT ![head] = b]
            BY <4>1, <4>3 DEF Committed
          <5>2. b.commits = branches[head].commits \cup {d} /\ b.exists = branches[head].exists
            BY <4>1 DEF Branch
          <5> HIDE DEF b
          <5> QED
            BY <4>1, <5>1, <5>2
        <4> QED
          BY <2>7, <4>2, <4>3 DEF Commit
      <3>3. branches'[Base].commits \subseteq interrupted'
        <4>1. CASE head # Base
          BY <3>1, <3>2, <4>1
        <4>2. CASE d \in interrupted
          BY <3>1, <3>2, <4>2
        <4> QED
          BY <3>1, <4>1, <4>2
      <3>4. \A e \in Deliveries :
              calls'[e].phase \in {"stage", "commit"} => head' # Base \/ e \in interrupted'
        BY <2>3, <2>7, <3>1 DEF Commit, At
      <3> QED
        BY <3>1, <3>2, <3>3, <3>4
    <2>8. CASE Push(d)
      <3>1. BranchOf[WorkOf(d)] # Base
        BY <2>4, <2>8 DEF Push, At, Gated, Working
      <3>2. remote'[Base] = remote[Base] /\ UNCHANGED <<head, branches, pulls, interrupted>>
        BY <1>1, <2>8, <3>1 DEF Push, TypeOK
      <3> QED
        BY <2>3, <2>8, <3>2 DEF Push, At
    <2>9. CASE OpenPullRequest(d)
      <3>1. BranchOf[WorkOf(d)] # Base
        BY <2>4, <2>9 DEF OpenPullRequest, At, Gated, Working
      <3>2. Base \notin pulls' /\ UNCHANGED <<head, branches, remote, interrupted>>
        BY <2>9, <3>1 DEF OpenPullRequest
      <3> QED
        BY <2>3, <2>9, <3>2 DEF OpenPullRequest, At
    <2> QED
      BY <1>3, <2>5, <2>6, <2>7, <2>8, <2>9 DEF Step
  <1>4. ASSUME NEW w \in Works, Apply(w)
        PROVE  BaseInv'
    BY <1>4 DEF Apply
  <1>5. ASSUME NEW w \in Works, PlanBranch(w)
        PROVE  BaseInv'
    <2>1. BranchOf[w] \in Branches
      OBVIOUS
    <2>2. BranchOf[w] # Base
      BY <1>5 DEF PlanBranch
    <2> QED
      BY <1>1, <1>5, <2>1, <2>2 DEF PlanBranch, NewBranch, SwitchedUnder, At, TypeOK
  <1>6. ASSUME NEW b \in Branches, CheckOut(b)
        PROVE  BaseInv'
    BY <1>6 DEF CheckOut, SwitchedUnder, At
  <1>7. CASE UNCHANGED vars
    BY <1>7
  <1> QED
    BY <1>2, <1>3, <1>4, <1>5, <1>6, <1>7 DEF Next

(* However many deliveries share the work tree, and whoever checks out     *)
(* what meanwhile, the base branch is never pushed and no pull request     *)
(* comes from it; the local one has a commit only of a delivery under      *)
(* which another branch was checked out.                                   *)
THEOREM BaseIsUntouched == Spec => []BaseUntouched
  <1>1. Init => BaseInv
    <2> SUFFICES ASSUME Init PROVE BaseInv
      OBVIOUS
    <2>1. branches[Base].exists /\ branches[Base].commits = {}
      BY DeliveryAssumption DEF Init
    <2> QED
      BY <2>1, DeliveryAssumption DEF Init, BaseInv, BaseUntouched, IdleCall
  <1>2. BaseInv => BaseUntouched
    BY DEF BaseInv
  <1> QED
    BY <1>1, <1>2, InitTypeInv, NextTypeInv, NextBaseInv, PTL DEF Spec

-----------------------------------------------------------------------------
(* Commits and rows.                                                       *)

(* The commits of the branches are those that the calls made, each on the  *)
(* branch that its call knows; a branch that does not exist has none.      *)
CommitInv ==
    /\ branches[head].exists /\ branches[Base].exists
    /\ \A b \in Branches : ~branches[b].exists => branches[b].commits = {}
    /\ \A b \in Branches : \A d \in branches[b].commits : calls[d].commit # None
    /\ \A d \in Deliveries :
         /\ calls[d].commit # None => d \in branches[calls[d].commit.branch].commits
         /\ calls[d].phase \in {"inspect", "branch", "stage", "commit"} => calls[d].commit = None

LEMMA NextCommitInv == TypeInv /\ CommitInv /\ [Next]_vars => CommitInv'
  <1> SUFFICES ASSUME TypeInv, CommitInv, [Next]_vars PROVE CommitInv'
    OBVIOUS
  <1> USE DEF CommitInv, vars, git, others
  <1>1. /\ TypeOK /\ calls \in [Deliveries -> Call]
        /\ head \in Branches /\ Base \in Branches /\ branches \in [Branches -> Branch]
    BY DeliveryAssumption DEF TypeInv, TypeOK
  <1>2. \A d \in Deliveries : calls[d].commit # None => calls[d].commit \in CommitMade
    BY <1>1 DEF Call
  <1>3. ASSUME NEW d \in Deliveries, NEW w \in Works, Begin(d, w)
        PROVE  CommitInv'
    <2>1. UNCHANGED <<git, github, others, rows>>
      BY <1>3, Zenon DEF Begin
    <2>2. /\ calls[d] = IdleCall /\ calls'[d].commit = None
          /\ calls' = [calls EXCEPT ![d] = calls'[d]]
      BY <1>3, BeginShape
    <2>3. calls[d].commit = None /\ \A e \in Deliveries \ {d} : calls'[e] = calls[e]
      BY <1>1, <2>2 DEF IdleCall
    <2>4. \A b \in Branches : branches[b].commits \subseteq Deliveries
      BY <1>1 DEF Branch
    <2> QED
      BY <2>1, <2>2, <2>3, <2>4
  <1>4. ASSUME NEW d \in Deliveries, Step(d) \/ Die(d)
        PROVE  CommitInv'
    <2>1. /\ Underway(d)
          /\ calls' = [calls EXCEPT ![d] = calls'[d]]
          /\ calls'[d].work = calls[d].work
          /\ \/ calls'[d].phase \in Ended
             \/ calls'[d].phase = "record"
             \/ Precedes(calls[d].phase, calls'[d].phase)
          /\ \/ calls'[d].commit = calls[d].commit
             \/ Commit(d) /\ calls'[d].phase = "push"
      BY <1>4, StepShape
    <2>2. WorkOf(d) \in Works /\ BranchOf[WorkOf(d)] \in Branches
      BY <2>1, DeliveryAssumption DEF TypeInv, Underway, At, Working
    <2>3. /\ \A e \in Deliveries \ {d} : calls'[e] = calls[e]
          /\ calls'[d].phase \in {"inspect", "branch", "stage", "commit"} =>
               calls[d].phase \in {"inspect", "branch", "stage", "commit"}
      BY <1>1, <2>1 DEF Ended, Precedes
    <2>4. \A b \in Branches : branches[b].commits \subseteq Deliveries
      BY <1>1 DEF Branch
    <2>5. CASE calls'[d].commit = calls[d].commit /\ UNCHANGED <<head, branches>>
      BY <2>3, <2>4, <2>5
    <2>6. CASE TakeBranch(d) /\ ~UNCHANGED <<head, branches>>
      <3> DEFINE b == BranchOf[WorkOf(d)]
      <3>1. /\ ~branches[b].exists /\ head' = b
            /\ branches' = [branches EXCEPT ![b] = [branches[head] EXCEPT !.exists = TRUE]]
        BY <2>6 DEF TakeBranch, NewBranch
      <3>2. branches'[b].exists /\ branches'[b].commits = branches[head].commits
        BY <1>1, <2>2, <3>1 DEF Branch
      <3>3. \A c \in Branches \ {b} : branches'[c] = branches[c]
        BY <1>1, <3>1
      <3>4. \A e \in Deliveries : calls'[e].commit = calls[e].commit
        BY <2>1, <2>3, <2>6 DEF TakeBranch, Commit, At
      <3>5. \A e \in Deliveries : calls[e].commit # None =>
              calls[e].commit.branch \in Branches \ {b}
        BY <1>2, <2>2, <3>1 DEF CommitMade
      <3> HIDE DEF b
      <3> QED
        BY <1>1, <2>2, <2>3, <2>4, <3>1, <3>2, <3>3, <3>4, <3>5
    <2>7. CASE Committed(d, head) /\ Commit(d)
      <3> DEFINE made == [branch |-> head, paths |-> StagedPaths]
      <3>1. calls'[d].commit = made /\ calls'[d].phase = "push"
        BY <1>1, <2>7 DEF Committed, Call
      <3>2. made # None /\ made.branch = head
        BY <1>1, NoneAssumption DEF CommitMade, StagedPaths
      <3>3. /\ branches'[head].commits = branches[head].commits \cup {d}
            /\ branches'[head].exists = branches[head].exists
            /\ \A b \in Branches \ {head} : branches'[b] = branches[b]
        <4> DEFINE b == [branches[head] EXCEPT !.files = index, !.commits = @ \cup {d}]
        <4>1. branches' = [branches EXCEPT ![head] = b]
          BY <1>1, <2>7 DEF Committed
        <4>2. branches'[head] = b /\ \A c \in Branches \ {head} : branches'[c] = branches[c]
          BY <1>1, <4>1
        <4>3. branches[head] \in Branch
          BY <1>1
        <4>4. b.commits = branches[head].commits \cup {d} /\ b.exists = branches[head].exists
          BY <4>3 DEF Branch
        <4> QED
          BY <4>2, <4>4
      <3>4. UNCHANGED head
        BY <2>7 DEF Commit
      <3>5. calls[d].commit = None
        BY <2>7 DEF Commit, At
      <3>6. \A e \in Deliveries : calls[e].commit # None => calls[e].commit.branch \in Branches
        BY <1>2 DEF CommitMade
      <3> HIDE DEF made
      <3>7. \A b \in Branches : \A e \in branches'[b].commits : calls'[e].commit # None
        BY <2>3, <2>4, <3>1, <3>2, <3>3
      <3>8. \A e \in Deliveries : calls'[e].commit # None =>
              e \in branches'[calls'[e].commit.branch].commits
        BY <1>1, <2>3, <3>1, <3>2, <3>3, <3>6
      <3>9. /\ branches'[head].exists /\ branches'[Base].exists
            /\ \A b \in Branches : ~branches'[b].exists => branches'[b].commits = {}
        BY <1>1, <3>3
      <3>10. \A e \in Deliveries :
               calls'[e].phase \in {"inspect", "branch", "stage", "commit"} =>
                 calls'[e].commit = None
        BY <2>3, <3>1
      <3> QED
        BY <3>4, <3>7, <3>8, <3>9, <3>10
    <2>8. CASE Raise(d) /\ Commit(d) /\ UNCHANGED branches
      <3>1. calls'[d].commit = calls[d].commit
        BY <1>1, <2>8, SetCall
      <3> QED
        BY <2>5, <2>8, <3>1 DEF Commit
    <2>9. Commit(d) \/ TakeBranch(d) \/ UNCHANGED <<head, branches>>
      BY <1>4 DEF Step, Inspect, StagePaths, Push, OpenPullRequest, Comment, Record, Die
    <2>10. TakeBranch(d) => ~Commit(d)
      BY DEF TakeBranch, Commit, At
    <2> QED
      BY <2>1, <2>5, <2>6, <2>7, <2>8, <2>9, <2>10 DEF Commit
  <1>5. ASSUME NEW w \in Works, Apply(w)
        PROVE  CommitInv'
    BY <1>5 DEF Apply
  <1>6. ASSUME NEW w \in Works, PlanBranch(w)
        PROVE  CommitInv'
    <2> DEFINE b == BranchOf[w]
    <2>1. /\ ~branches[b].exists /\ head' = b /\ UNCHANGED calls /\ b \in Branches
          /\ branches' = [branches EXCEPT ![b] = [branches[head] EXCEPT !.exists = TRUE]]
      BY <1>6, DeliveryAssumption DEF PlanBranch, NewBranch
    <2>2. branches'[b].exists /\ branches'[b].commits = branches[head].commits
      BY <1>1, <2>1 DEF Branch
    <2>3. \A c \in Branches \ {b} : branches'[c] = branches[c]
      BY <1>1, <2>1
    <2>4. \A e \in Deliveries : calls[e].commit # None =>
            calls[e].commit.branch \in Branches \ {b}
      BY <1>2, <2>1 DEF CommitMade
    <2> HIDE DEF b
    <2> QED
      BY <1>1, <2>1, <2>2, <2>3, <2>4
  <1>7. ASSUME NEW b \in Branches, CheckOut(b)
        PROVE  CommitInv'
    BY <1>7 DEF CheckOut
  <1>8. CASE UNCHANGED vars
    BY <1>8
  <1> QED
    BY <1>3, <1>4, <1>5, <1>6, <1>7, <1>8, DeliveryAssumption DEF Next

(* What was pushed stays, and a pull request stays open.                   *)
LEMMA RemoteGrows ==
    ASSUME TypeInv, [Next]_vars
    PROVE  pulls \subseteq pulls' /\ \A b \in Branches : remote[b] \subseteq remote'[b]
  <1> USE DEF vars, git, github, others
  <1>1. CASE UNCHANGED <<pulls, remote>>
    BY <1>1
  <1>2. ASSUME NEW d \in Deliveries, Push(d)
        PROVE  pulls \subseteq pulls' /\ \A b \in Branches : remote[b] \subseteq remote'[b]
    BY <1>2 DEF Push, TypeInv, TypeOK
  <1>3. ASSUME NEW d \in Deliveries, OpenPullRequest(d)
        PROVE  pulls \subseteq pulls' /\ \A b \in Branches : remote[b] \subseteq remote'[b]
    BY <1>3 DEF OpenPullRequest
  <1>4. ASSUME NEW d \in Deliveries, NEW w \in Works, Begin(d, w)
        PROVE  UNCHANGED <<pulls, remote>>
    BY <1>4, Zenon DEF Begin
  <1>5. ASSUME NEW d \in Deliveries, Step(d) \/ Die(d), ~Push(d), ~OpenPullRequest(d)
        PROVE  UNCHANGED <<pulls, remote>>
    BY <1>5 DEF Step, Inspect, TakeBranch, StagePaths, Commit, Comment, Record, Die
  <1> QED
    BY <1>1, <1>2, <1>3, <1>4, <1>5 DEF Next, Apply, PlanBranch, CheckOut

(* A call that knows of a pull request has one for its branch; one that    *)
(* comments knows of it, as does one that is about to record a success;    *)
(* and a commit on the branch of its own run is pushed by then.  Rows tell *)
(* what their calls had come to.                                           *)
Pushed(d) == OnOwnBranch(d) => d \in remote[BranchOf[WorkOf(d)]]
PullOpen(d) == BranchOf[WorkOf(d)] \in pulls

CallTold(d) ==
    /\ calls[d].pull => PullOpen(d)
    /\ calls[d].status = "SUCCEEDED" => At(d, "record")
    /\ At(d, "comment") \/ calls[d].status = "SUCCEEDED" => calls[d].pull
    /\ At(d, "pull") \/ At(d, "comment") \/ calls[d].status = "SUCCEEDED" => Pushed(d)

RowTold(d) ==
    rows[d] # None =>
        /\ At(d, "saved")
        /\ rows[d].committed = (calls[d].commit # None)
        /\ rows[d].pull => PullOpen(d)

RowInv == \A d \in Deliveries : CallTold(d) /\ RowTold(d)

(* What the steps of a call do to what it knows.                           *)
LEMMA StepStatus ==
    ASSUME TypeInv, CommitInv, RowInv, NEW d \in Deliveries, Step(d) \/ Die(d)
    PROVE  CallTold(d)'
  <1> USE DEF CallTold, At, vars, git, github
  <1>1. TypeOK /\ calls \in [Deliveries -> Call] /\ calls[d] \in Call
    BY DEF TypeInv, TypeOK
  <1>2. Underway(d) /\ calls'[d].work = calls[d].work
    BY StepShape
  <1>3. WorkOf(d) \in Works /\ BranchOf[WorkOf(d)] \in Branches
    BY <1>2, DeliveryAssumption DEF TypeInv, Underway, Working
  <1>4. pulls \subseteq pulls'
    BY RemoteGrows DEF Next
  <1>5. CASE Inspect(d) \/ TakeBranch(d) \/ StagePaths(d)
    BY <1>1, <1>2, <1>4, <1>5, SetCall
    DEF Inspect, TakeBranch, StagePaths, Changes, RowInv, PullOpen, WorkOf, Working
  <1>6. CASE Commit(d)
    <2>1. CASE Raise(d)
      BY <1>1, <1>2, <1>4, <1>6, <2>1, SetCall DEF Commit, Changes, RowInv, PullOpen, WorkOf
    <2>2. CASE Committed(d, head)
      <3>1. /\ calls'[d].pull = calls[d].pull /\ calls'[d].status = calls[d].status
            /\ calls'[d].phase = "push"
        BY <1>1, <2>2 DEF Committed, Call
      <3> QED
        BY <1>2, <1>4, <1>6, <3>1 DEF Commit, RowInv, PullOpen, WorkOf
    <2> QED
      BY <1>6, <2>1, <2>2 DEF Commit
  <1>7. CASE Push(d)
    <2>1. CASE Raise(d)
      BY <1>1, <1>2, <1>4, <1>7, <2>1, SetCall DEF Push, Changes, RowInv, PullOpen, WorkOf
    <2>2. CASE Proceed(d, "pull") /\ ~Raise(d)
      <3>1. /\ calls'[d].pull = calls[d].pull /\ calls'[d].status = calls[d].status
            /\ calls'[d].commit = calls[d].commit /\ calls'[d].phase = "pull"
        BY <1>1, <2>2, SetCall DEF Changes, Working
      <3>2. remote'[BranchOf[WorkOf(d)]] = branches[BranchOf[WorkOf(d)]].commits
        BY <1>1, <1>3, <1>7, <2>2 DEF Push, TypeOK
      <3>3. OnOwnBranch(d) => d \in branches[BranchOf[WorkOf(d)]].commits
        BY DEF CommitInv, OnOwnBranch
      <3>4. Pushed(d)'
        BY <1>2, <3>1, <3>2, <3>3 DEF Pushed, OnOwnBranch, WorkOf
      <3> QED
        BY <1>2, <1>4, <1>7, <3>1, <3>4 DEF Push, RowInv, PullOpen, WorkOf
    <2> QED
      BY <1>7, <2>1, <2>2 DEF Push
  <1>8. CASE OpenPullRequest(d)
    <2>1. CASE Raise(d)
      BY <1>1, <1>2, <1>4, <1>8, <2>1, SetCall DEF OpenPullRequest, Changes, RowInv, PullOpen, WorkOf
    <2>2. CASE /\ calls' = [calls EXCEPT ![d].phase = "comment", ![d].pull = TRUE]
               /\ pulls' = pulls \cup {BranchOf[WorkOf(d)]}
      <3> DEFINE s == [calls[d] EXCEPT !.phase = "comment", !.pull = TRUE]
      <3>1. calls'[d] = s
        BY <1>1, <2>2
      <3>2. /\ s.status = calls[d].status /\ s.commit = calls[d].commit
            /\ s.phase = "comment" /\ s.pull
        BY <1>1 DEF Call
      <3> HIDE DEF s
      <3>3. Pushed(d)'
        BY <1>2, <1>8, <3>1, <3>2 DEF OpenPullRequest, RowInv, Pushed, OnOwnBranch, WorkOf
      <3> QED
        BY <1>2, <1>8, <2>2, <3>1, <3>2, <3>3 DEF OpenPullRequest, RowInv, PullOpen, WorkOf
    <2> QED
      BY <1>8, <2>1, <2>2 DEF OpenPullRequest
  <1>9. CASE Comment(d)
    <2>1. CASE Raise(d)
      BY <1>1, <1>2, <1>4, <1>9, <2>1, SetCall DEF Comment, Changes, RowInv, PullOpen, WorkOf
    <2>2. CASE calls' = [calls EXCEPT ![d].phase = "record", ![d].status = "SUCCEEDED"]
      <3> DEFINE s == [calls[d] EXCEPT !.phase = "record", !.status = "SUCCEEDED"]
      <3>1. calls'[d] = s
        BY <1>1, <2>2
      <3>2. /\ s.pull = calls[d].pull /\ s.commit = calls[d].commit
            /\ s.phase = "record" /\ s.status = "SUCCEEDED"
        BY <1>1 DEF Call
      <3> HIDE DEF s
      <3>3. Pushed(d)'
        BY <1>2, <1>9, <3>1, <3>2 DEF Comment, RowInv, Pushed, OnOwnBranch, WorkOf
      <3> QED
        BY <1>2, <1>4, <1>9, <3>1, <3>2, <3>3 DEF Comment, RowInv, PullOpen, WorkOf
    <2> QED
      BY <1>9, <2>1, <2>2 DEF Comment
  <1>10. CASE Record(d)
    BY <1>1, <1>2, <1>4, <1>10, SetCall
    DEF Record, RecordingFails, Changes, Ended, RowInv, PullOpen, WorkOf
  <1>11. CASE Die(d)
    BY <1>1, <1>11, SetCall DEF Die, Changes, Ended
  <1> QED
    BY <1>5, <1>6, <1>7, <1>8, <1>9, <1>10, <1>11 DEF Step

LEMMA NextRowInv == TypeInv /\ CommitInv /\ RowInv /\ [Next]_vars => RowInv'
  <1> SUFFICES ASSUME TypeInv, CommitInv, RowInv, [Next]_vars PROVE RowInv'
    OBVIOUS
  <1> USE DEF RowTold, At, vars, git, github
  <1>1. /\ TypeOK /\ calls \in [Deliveries -> Call]
        /\ rows \in [Deliveries -> Row \cup {None}]
    BY DEF TypeInv, TypeOK
  <1>2. /\ pulls \subseteq pulls' /\ \A b \in Branches : remote[b] \subseteq remote'[b]
    BY RemoteGrows
  <1>3. \A d \in Deliveries : WorkOf(d) \in Works => BranchOf[WorkOf(d)] \in Branches
    BY DeliveryAssumption
  <1>4. \A d \in Deliveries : calls[d].phase # "idle" => WorkOf(d) \in Works
    BY DEF TypeInv
  <1>5. ASSUME NEW d \in Deliveries, calls'[d] = calls[d], rows'[d] = rows[d]
        PROVE  (CallTold(d) /\ RowTold(d))'
    BY <1>2, <1>3, <1>4, <1>5 DEF RowInv, CallTold, PullOpen, Pushed, OnOwnBranch, WorkOf, TypeInv, IdleCall
  <1>6. ASSUME NEW d \in Deliveries, NEW w \in Works, Begin(d, w)
        PROVE  RowInv'
    <2>1. UNCHANGED <<git, github, others, rows>>
      BY <1>6, Zenon DEF Begin
    <2>2. /\ calls[d] = IdleCall
          /\ calls' = [calls EXCEPT ![d] = calls'[d]]
          /\ calls'[d].pull = FALSE /\ calls'[d].status = "FAILED"
          /\ calls'[d].phase \in {"inspect", "record"}
      BY <1>6, BeginShape
    <2>3. \A e \in Deliveries \ {d} : calls'[e] = calls[e]
      BY <1>1, <2>2
    <2>4. rows[d] = None
      BY <2>2 DEF RowInv, IdleCall
    <2>5. (CallTold(d) /\ RowTold(d))'
      BY <2>1, <2>2, <2>4 DEF CallTold
    <2> QED
      BY <1>5, <2>1, <2>3, <2>5 DEF RowInv
  <1>7. ASSUME NEW d \in Deliveries, Step(d) \/ Die(d)
        PROVE  RowInv'
    <2>1. Underway(d) /\ calls' = [calls EXCEPT ![d] = calls'[d]]
      BY <1>7, StepShape
    <2>2. \A e \in Deliveries \ {d} : calls'[e] = calls[e]
      BY <1>1, <2>1
    <2>3. CallTold(d)'
      BY <1>7, StepStatus
    <2>4. rows[d] = None
      BY <2>1 DEF RowInv, Underway, Working
    <2>5. CASE UNCHANGED rows
      <3>1. (CallTold(d) /\ RowTold(d))'
        BY <2>3, <2>4, <2>5 DEF RowInv
      <3> QED
        BY <1>5, <2>2, <2>5, <3>1 DEF RowInv
    <2>6. CASE rows' = [rows EXCEPT ![d] = NewRow(d)] /\ End(d, "saved") /\ UNCHANGED github
      <3>1. /\ rows'[d] = NewRow(d)
            /\ \A e \in Deliveries \ {d} : rows'[e] = rows[e]
        BY <1>1, <2>6
      <3>2. /\ calls'[d].phase = "saved" /\ calls'[d].work = calls[d].work
            /\ calls'[d].commit = calls[d].commit
        BY <1>1, <2>6, SetCall DEF Changes, Ended
      <3>3. calls[d].pull => PullOpen(d)'
        BY <2>6, <3>2 DEF RowInv, CallTold, PullOpen, WorkOf
      <3>4. (CallTold(d) /\ RowTold(d))'
        BY <2>3, <3>1, <3>2, <3>3 DEF RowInv, NewRow
      <3> QED
        BY <1>5, <2>2, <3>1, <3>4 DEF RowInv
    <2> QED
      BY <1>7, <2>5, <2>6
      DEF Step, Inspect, TakeBranch, StagePaths, Commit, Push, OpenPullRequest, Comment, Record, Die
  <1>8. CASE UNCHANGED <<calls, rows>>
    BY <1>5, <1>8 DEF RowInv
  <1> QED
    BY <1>6, <1>7, <1>8 DEF Next, Apply, PlanBranch, CheckOut

LEMMA InitCommitRowInv == Init => CommitInv /\ RowInv
  <1> SUFFICES ASSUME Init PROVE CommitInv /\ RowInv
    OBVIOUS
  <1>1. \A d \in Deliveries : calls[d] = IdleCall /\ rows[d] = None
    BY DEF Init
  <1>2. /\ head = Base /\ branches[Base].exists
        /\ \A b \in Branches : branches[b].commits = {}
    BY DeliveryAssumption DEF Init
  <1>3. CommitInv
    BY <1>1, <1>2 DEF CommitInv, IdleCall
  <1>4. RowInv
    BY <1>1 DEF RowInv, CallTold, RowTold, IdleCall, At
  <1> QED
    BY <1>3, <1>4

(* The row of a delivery tells whether there is a commit of it on any      *)
(* branch, and of a pull request only one that is open: whatever failed,   *)
(* and whoever took which branch meanwhile.                                *)
THEOREM RowsTell == Spec => []RowsTellCommits
  <1>1. TypeInv /\ CommitInv /\ RowInv => RowsTellCommits
    <2> SUFFICES ASSUME TypeInv, CommitInv, RowInv, NEW d \in Deliveries, rows[d] # None
                 PROVE  /\ rows[d].committed = \E b \in Branches : d \in branches[b].commits
                        /\ rows[d].pull => BranchOf[WorkOf(d)] \in pulls
      BY DEF RowsTellCommits
    <2>1. calls[d].commit # None => calls[d].commit.branch \in Branches
      BY DEF TypeInv, TypeOK, Call, CommitMade
    <2>2. (calls[d].commit # None) = \E b \in Branches : d \in branches[b].commits
      BY <2>1 DEF CommitInv
    <2> QED
      BY <2>2 DEF RowInv, RowTold, PullOpen
  <1> QED
    BY <1>1, InitTypeInv, NextTypeInv, InitCommitRowInv, NextCommitInv, NextRowInv, PTL DEF Spec

-----------------------------------------------------------------------------
(* Handoff.                                                                *)

(* A row is written once, when its call records: until then it is None,    *)
(* and what a success rests on, the call's work and commit, stays.         *)
LEMMA SuccessesStay ==
    ASSUME TypeInv, CommitInv, RowInv, [Next]_vars, UNCHANGED rows
    PROVE  Successes' = Successes
  <1> USE DEF vars
  <1>1. calls \in [Deliveries -> Call]
    BY DEF TypeInv, TypeOK
  <1>2. \A d \in Deliveries : rows[d] # None => calls'[d] = calls[d]
    <2>1. ASSUME NEW d \in Deliveries, NEW w \in Works, Begin(d, w)
          PROVE  rows[d] = None /\ calls' = [calls EXCEPT ![d] = calls'[d]]
      <3>1. calls[d] = IdleCall /\ calls' = [calls EXCEPT ![d] = calls'[d]]
        BY <2>1, BeginShape
      <3> QED
        BY <3>1 DEF RowInv, RowTold, At, IdleCall
    <2>2. ASSUME NEW d \in Deliveries, Step(d) \/ Die(d)
          PROVE  rows[d] = None /\ calls' = [calls EXCEPT ![d] = calls'[d]]
      BY <2>2, StepShape DEF RowInv, RowTold, At, Underway, Working
    <2> QED
      BY <1>1, <2>1, <2>2 DEF Next, Apply, PlanBranch, CheckOut
  <1> QED
    BY <1>2 DEF Successes, OnOwnBranch, WorkOf

LEMMA StepHandoff ==
    ASSUME TypeInv, CommitInv, RowInv, [Next]_vars
    PROVE  Reviewers!Next \/ UNCHANGED <<remote, pulls, Successes>>
  <1> USE DEF vars, git, github, At
  <1>1. /\ TypeOK /\ remote \in [Branches -> SUBSET Deliveries]
        /\ branches \in [Branches -> Branch] /\ rows \in [Deliveries -> Row \cup {None}]
    BY DEF TypeInv, TypeOK
  <1>2. \A d \in Deliveries : Underway(d) => BranchOf[WorkOf(d)] \in Branches
    BY DeliveryAssumption DEF TypeInv, Underway, Working
  <1>3. ASSUME NEW d \in Deliveries, Push(d)
        PROVE  Reviewers!Next \/ UNCHANGED <<remote, pulls, Successes>>
    <2> DEFINE b == BranchOf[WorkOf(d)]
    <2>1. b \in Branches /\ Successes' = Successes
      BY <1>2, <1>3, SuccessesStay DEF Push, Underway, Working, Next, Step
    <2>2. CASE UNCHANGED remote
      BY <1>3, <2>1, <2>2 DEF Push
    <2>3. CASE /\ remote[b] \subseteq branches[b].commits
               /\ remote' = [remote EXCEPT ![b] = branches[b].commits]
      <3>1. branches[b].commits \in SUBSET Deliveries
        BY <1>1, <2>1 DEF Branch
      <3>2. remote' = [remote EXCEPT ![b] = remote[b] \cup branches[b].commits]
        BY <1>1, <2>3
      <3>3. Reviewers!Share(b)
        BY <1>3, <2>1, <3>1, <3>2 DEF Reviewers!Share, Push
      <3> QED
        BY <2>1, <3>3 DEF Reviewers!Next
    <2> QED
      BY <1>3, <2>2, <2>3 DEF Push
  <1>4. ASSUME NEW d \in Deliveries, OpenPullRequest(d)
        PROVE  Reviewers!Next \/ UNCHANGED <<remote, pulls, Successes>>
    <2> DEFINE b == BranchOf[WorkOf(d)]
    <2>1. b \in Branches /\ Successes' = Successes
      BY <1>2, <1>4, SuccessesStay DEF OpenPullRequest, Underway, Working, Next, Step
    <2>2. CASE UNCHANGED pulls
      BY <1>4, <2>1, <2>2 DEF OpenPullRequest
    <2>3. CASE /\ b \notin pulls /\ remote[b] \ remote[Base] # {}
               /\ pulls' = pulls \cup {b}
      <3>1. Reviewers!Propose(b)
        BY <1>4, <2>1, <2>3 DEF Reviewers!Propose, OpenPullRequest
      <3> QED
        BY <2>1, <3>1 DEF Reviewers!Next
    <2> QED
      BY <1>4, <2>2, <2>3 DEF OpenPullRequest
  <1>5. ASSUME NEW d \in Deliveries, rows' = [rows EXCEPT ![d] = NewRow(d)], Record(d),
               End(d, "saved")
        PROVE  Reviewers!Next \/ UNCHANGED <<remote, pulls, Successes>>
    <2>1. /\ calls'[d].work = calls[d].work /\ calls'[d].commit = calls[d].commit
          /\ \A e \in Deliveries \ {d} : calls'[e] = calls[e] /\ rows'[e] = rows[e]
      BY <1>1, <1>5, SetCall DEF Changes, Ended, TypeOK
    <2>2. rows'[d] = NewRow(d) /\ rows[d] = None
      BY <1>1, <1>5 DEF Record, RowInv, RowTold
    <2>3. NewRow(d) # None
      <3>1. calls[d] \in Call
        BY DEF TypeInv, TypeOK
      <3>2. NewRow(d) \in Row
        BY <3>1 DEF NewRow, Row, Call
      <3> QED
        BY <3>2, NoneAssumption
    <2>4. Successes' = IF calls[d].status = "SUCCEEDED" /\ OnOwnBranch(d)
                       THEN Successes \cup {d} ELSE Successes
      BY <2>1, <2>2, <2>3 DEF Successes, OnOwnBranch, WorkOf, NewRow
    <2>5. CASE calls[d].status = "SUCCEEDED" /\ OnOwnBranch(d)
      <3>1. /\ BranchOf[WorkOf(d)] \in pulls /\ d \in remote[BranchOf[WorkOf(d)]]
        BY <2>5 DEF RowInv, CallTold, PullOpen, Pushed
      <3>2. Reviewers!Record(d)
        BY <1>5, <2>4, <2>5, <3>1 DEF Reviewers!Record, Record
      <3> QED
        BY <3>2 DEF Reviewers!Next
    <2> QED
      BY <1>5, <2>4, <2>5 DEF Record
  <1>6. ASSUME NEW d \in Deliveries, NEW w \in Works, Begin(d, w)
        PROVE  UNCHANGED <<github, rows>>
    BY <1>6, Zenon DEF Begin
  <1>7. CASE UNCHANGED <<remote, pulls, rows>>
    BY <1>7, SuccessesStay
  <1>8. ASSUME NEW d \in Deliveries, Step(d) \/ Die(d)
        PROVE  Reviewers!Next \/ UNCHANGED <<remote, pulls, Successes>>
    <2>1. CASE Inspect(d) \/ TakeBranch(d) \/ StagePaths(d) \/ Commit(d) \/ Die(d)
      BY <1>7, <2>1 DEF Inspect, TakeBranch, StagePaths, Commit, Die
    <2>2. CASE Comment(d)
      BY <2>2, SuccessesStay DEF Comment
    <2>3. CASE Record(d)
      BY <1>5, <1>7, <2>3 DEF Record
    <2> QED
      BY <1>3, <1>4, <1>8, <2>1, <2>2, <2>3 DEF Step
  <1> QED
    BY <1>6, <1>7, <1>8 DEF Next, Apply, PlanBranch, CheckOut

(* Deliveries implement Handoff: commits that were shared stay shared, a   *)
(* branch is put up for review once and with commits, and a delivery whose *)
(* commit is on the branch of its run is recorded as a success only when   *)
(* that commit is up for review.                                           *)
THEOREM HandoffImplemented == Spec => ImplementsHandoff
  <1>1. Init => Reviewers!Init
    BY DEF Init, Reviewers!Init, Successes
  <1>2. TypeInv /\ CommitInv /\ RowInv /\ [Next]_vars
          => [Reviewers!Next]_(Reviewers!vars)
    BY StepHandoff DEF Reviewers!vars
  <1> QED
    BY <1>1, <1>2, InitTypeInv, NextTypeInv, InitCommitRowInv, NextCommitInv, NextRowInv, PTL
    DEF Spec, ImplementsHandoff, Reviewers!Spec

-----------------------------------------------------------------------------
(* What gets into a commit.                                                *)

(* Of two deliveries that are underway each runs beside the other.         *)
KeysApart ==
    \A d, e \in Deliveries :
        Underway(d) /\ Underway(e) /\ d # e /\ KeyOf[WorkOf(d)] # None
            => KeyOf[WorkOf(e)] # KeyOf[WorkOf(d)]

FilesBeside(d) == UNION {Changed[WorkOf(e)] : e \in Beside(d)}
BranchesBeside(d) == {BranchOf[WorkOf(e)] : e \in Beside(d)}

(* From its inspection to its commit, what is staged and no artifact comes *)
(* from a delivery beside it, as does the branch from the time it has      *)
(* taken its own, unless another was checked out under it.                 *)
StagedOk(d) ==
    /\ calls[d].phase \in {"branch", "stage", "commit"} =>
         StagedPaths \ Artifacts \subseteq FilesBeside(d)
    /\ calls[d].phase \in {"stage", "commit"} =>
         head \in BranchesBeside(d) \/ d \in interrupted

CommitOk(d) ==
    calls[d].commit # None =>
        /\ calls[d].commit.paths \ Artifacts \subseteq FilesBeside(d)
        /\ d \notin interrupted => calls[d].commit.branch \in BranchesBeside(d)

StageInv == KeysApart /\ \A d \in Deliveries : StagedOk(d) /\ CommitOk(d)

LEMMA UnderwayBeside ==
    ASSUME TypeInv, KeysApart, NEW d \in Deliveries, NEW e \in Deliveries,
           Underway(d), Gated(e)
    PROVE  e \in Beside(d)
  BY DeliveryAssumption DEF TypeInv, KeysApart, Beside, Underway, Gated, Working, At, WorkOf

LEMMA NextKeysApart == TypeInv /\ KeysApart /\ [Next]_vars => KeysApart'
  <1> SUFFICES ASSUME TypeInv, KeysApart, [Next]_vars PROVE KeysApart'
    OBVIOUS
  <1> USE DEF KeysApart, Underway, WorkOf, vars
  <1>1. calls \in [Deliveries -> Call]
    BY DEF TypeInv, TypeOK
  <1>2. ASSUME NEW d \in Deliveries, NEW w \in Works, Begin(d, w)
        PROVE  KeysApart'
    <2>1. /\ calls' = [calls EXCEPT ![d] = calls'[d]]
          /\ ~KeyHeld(w) /\ calls'[d].work = w
      BY <1>2, BeginShape
    <2>2. \A e \in Deliveries \ {d} : calls'[e] = calls[e]
      BY <1>1, <2>1
    <2>3. \A e \in Deliveries : Underway(e) /\ KeyOf[w] # None => KeyOf[WorkOf(e)] # KeyOf[w]
      BY <2>1 DEF KeyHeld
    <2> QED
      BY <2>1, <2>2, <2>3
  <1>3. ASSUME NEW d \in Deliveries, Step(d) \/ Die(d)
        PROVE  KeysApart'
    <2>1. /\ Underway(d) /\ calls' = [calls EXCEPT ![d] = calls'[d]]
          /\ calls'[d].work = calls[d].work
      BY <1>3, StepShape
    <2>2. \A e \in Deliveries \ {d} : calls'[e] = calls[e]
      BY <1>1, <2>1
    <2> QED
      BY <2>1, <2>2
  <1> QED
    BY <1>2, <1>3 DEF Next, Apply, PlanBranch, CheckOut

(* Who ran beside a call stays beside it.                                  *)
LEMMA BesideGrows ==
    ASSUME TypeInv, [Next]_vars, NEW d \in Deliveries, ~At(d, "idle")
    PROVE  /\ calls'[d].work = calls[d].work
           /\ FilesBeside(d) \subseteq FilesBeside(d)'
           /\ BranchesBeside(d) \subseteq BranchesBeside(d)'
  <1> USE DEF WorkOf, At, vars
  <1>1. calls \in [Deliveries -> Call]
    BY DEF TypeInv, TypeOK
  <1>2. \A e \in Deliveries : calls[e].work # None => calls'[e].work = calls[e].work
    <2>1. ASSUME NEW c \in Deliveries, NEW w \in Works, Begin(c, w)
          PROVE  calls[c] = IdleCall /\ calls' = [calls EXCEPT ![c] = calls'[c]]
      BY <2>1, BeginShape
    <2>2. ASSUME NEW c \in Deliveries, Step(c) \/ Die(c)
          PROVE  /\ calls'[c].work = calls[c].work
                 /\ calls' = [calls EXCEPT ![c] = calls'[c]]
      BY <2>2, StepShape
    <2> QED
      BY <1>1, <2>1, <2>2 DEF Next, Apply, PlanBranch, CheckOut, IdleCall
  <1>3. calls[d].work # None
    BY DeliveryAssumption DEF TypeInv
  <1>4. \A e \in Beside(d) : e \in Beside(d)' /\ calls'[e].work = calls[e].work
    <2>1. None \notin Passable
      BY DeliveryAssumption DEF Passable
    <2> QED
      BY <1>2, <1>3, <2>1 DEF Beside
  <1> QED
    BY <1>2, <1>3, <1>4 DEF FilesBeside, BranchesBeside

(* To create a branch changes no file: it has those of the branch that it  *)
(* is created from.                                                        *)
LEMMA NewBranchFiles ==
    ASSUME TypeInv, NEW b \in Branches, NewBranch(b)
    PROVE  HeadFiles' = HeadFiles
  <1>1. branches \in [Branches -> Branch] /\ branches[head] \in Branch
    BY DEF TypeInv, TypeOK
  <1>2. branches'[b].files = branches[head].files /\ head' = b
    BY <1>1 DEF Branch, NewBranch
  <1> QED
    BY <1>2 DEF HeadFiles

LEMMA TakeBranchFiles ==
    ASSUME TypeInv, NEW d \in Deliveries, TakeBranch(d)
    PROVE  UNCHANGED <<tree, index>> /\ HeadFiles' = HeadFiles
  <1>1. BranchOf[WorkOf(d)] \in Branches
    BY DeliveryAssumption DEF TypeInv, TakeBranch, At
  <1>2. CASE NewBranch(BranchOf[WorkOf(d)]) /\ UNCHANGED <<tree, index>>
    BY <1>1, <1>2, NewBranchFiles
  <1> QED
    BY <1>2 DEF TakeBranch, HeadFiles, git

(* A checkout leaves no more unstaged or uncommitted than it found.        *)
LEMMA CheckOutFiles ==
    ASSUME TypeInv, NEW b \in Branches, CheckOut(b), NEW p \in Paths
    PROVE  /\ tree'[p] # index'[p] => tree[p] # index[p]
           /\ index'[p] # HeadFiles'[p] => index[p] # HeadFiles[p]
  <1> DEFINE onto == branches[b].files
  <1>1. HeadFiles' = onto
    BY DEF CheckOut, HeadFiles
  <1>2. CASE onto[p] # HeadFiles[p] /\ onto[p] # index[p]
    <2>1. tree'[p] = onto[p] /\ index'[p] = onto[p]
      BY <1>2 DEF CheckOut
    <2> QED
      BY <1>1, <2>1
  <1>3. CASE ~(onto[p] # HeadFiles[p] /\ onto[p] # index[p])
    <2>1. tree'[p] = tree[p] /\ index'[p] = index[p]
      BY <1>3 DEF CheckOut
    <2> QED
      BY <1>1, <1>3, <2>1
  <1> QED
    BY <1>2, <1>3

(* A step stages nothing but files of its own work, and checks out no      *)
(* branch but that of its run; both only past the gate.                    *)
LEMMA StepStaged ==
    ASSUME TypeInv, NEW d \in Deliveries, Step(d) \/ Die(d)
    PROVE  /\ StagedPaths' \subseteq StagedPaths \cup Changed[WorkOf(d)]
           /\ head' \in {head, BranchOf[WorkOf(d)]}
           /\ ~Gated(d) => StagedPaths' = StagedPaths /\ head' = head
           /\ UNCHANGED interrupted
  <1> SUFFICES /\ StagedPaths' \subseteq StagedPaths \cup Changed[WorkOf(d)]
               /\ head' \in {head, BranchOf[WorkOf(d)]}
    <2>1. UNCHANGED interrupted
      BY DEF Step, Inspect, TakeBranch, StagePaths, Commit, Push, OpenPullRequest, Comment,
             Record, Die, others
    <2>2. ~Gated(d) => UNCHANGED git
      BY DEF Step, Inspect, TakeBranch, StagePaths, Commit, Push, OpenPullRequest, Comment,
             Record, Die, Gated, Working, At
    <2> QED
      BY <2>1, <2>2 DEF StagedPaths, HeadFiles, git
  <1> USE DEF StagedPaths, HeadFiles, git
  <1>1. /\ branches \in [Branches -> Branch] /\ head \in Branches /\ index \in Files
        /\ branches[head] \in Branch
    BY DEF TypeInv, TypeOK
  <1>2. BranchOf[WorkOf(d)] \in Branches
    BY StepShape, DeliveryAssumption DEF TypeInv, Underway, Working, At
  <1>3. CASE UNCHANGED git
    BY <1>3
  <1>4. CASE TakeBranch(d)
    <2>1. UNCHANGED <<tree, index>> /\ HeadFiles' = HeadFiles
      BY <1>4, TakeBranchFiles
    <2> QED
      BY <1>4, <2>1 DEF TakeBranch, NewBranch
  <1>5. CASE StagePaths(d)
    BY <1>5 DEF StagePaths
  <1>6. CASE Commit(d)
    <2>1. CASE Committed(d, head)
      <3> DEFINE b == [branches[head] EXCEPT !.files = index, !.commits = @ \cup {d}]
      <3>1. branches' = [branches EXCEPT ![head] = b]
        BY <1>1, <2>1 DEF Committed
      <3>2. b.files = index
        BY <1>1 DEF Branch
      <3>3. branches'[head].files = index
        BY <1>1, <3>1, <3>2
      <3> QED
        BY <1>6, <3>3 DEF Commit
    <2> QED
      BY <1>6, <2>1 DEF Commit
  <1> QED
    BY <1>3, <1>4, <1>5, <1>6
    DEF Step, Inspect, Push, OpenPullRequest, Comment, Record, Die

(* What an inspection passes is staged for the work alone, or an artifact. *)
LEMMA InspectedStaged ==
    ASSUME NEW w \in Works, UnexpectedPaths(w) = {}
    PROVE  StagedPaths \ Artifacts \subseteq Changed[w]
  <1> SUFFICES ASSUME NEW p \in StagedPaths, p \notin Changed[w] PROVE p \in Artifacts
    OBVIOUS
  <1>1. p \in ChangedPaths /\ ~(p \in NewDir /\ NewDirUntracked)
    BY DEF StagedPaths, ChangedPaths, NewDirUntracked
  <1> QED
    BY <1>1 DEF UnexpectedPaths

LEMMA NextStageInv == TypeInv /\ CommitInv /\ StageInv /\ [Next]_vars => StageInv'
  <1> SUFFICES ASSUME TypeInv, CommitInv, StageInv, [Next]_vars PROVE StageInv'
    OBVIOUS
  <1> USE DEF vars
  <1>1. /\ TypeOK /\ calls \in [Deliveries -> Call]
        /\ \A d \in Deliveries : At(d, "idle") => calls[d] = IdleCall
    BY DEF TypeInv, TypeOK
  <1>2. KeysApart'
    BY NextKeysApart DEF StageInv
  <1>3. ASSUME NEW e \in Deliveries, calls'[e] = calls[e],
               NEW C \in SUBSET Paths,
               StagedPaths' \subseteq StagedPaths \cup C,
               Underway(e) => C \subseteq FilesBeside(e),
               Underway(e) => head' \in BranchesBeside(e) \cup {head},
               UNCHANGED interrupted
        PROVE  StagedOk(e)' /\ CommitOk(e)'
    <2>1. CASE At(e, "idle")
      BY <1>1, <1>3, <2>1 DEF StagedOk, CommitOk, IdleCall
    <2>2. CASE ~At(e, "idle")
      <3>1. /\ FilesBeside(e) \subseteq FilesBeside(e)'
            /\ BranchesBeside(e) \subseteq BranchesBeside(e)'
        BY <2>2, BesideGrows
      <3>2. StagedOk(e) /\ CommitOk(e)
        BY DEF StageInv
      <3>3. StagedOk(e)'
        BY <1>3, <3>1, <3>2 DEF StagedOk, Underway, Working
      <3>4. CommitOk(e)'
        BY <1>3, <3>1, <3>2 DEF CommitOk
      <3> QED
        BY <3>3, <3>4
    <2> QED
      BY <2>1, <2>2
  <1>4. CASE UNCHANGED <<index, head, branches, interrupted, calls>>
    <2>1. /\ StagedPaths' \subseteq StagedPaths \cup {} /\ {} \in SUBSET Paths
          /\ head' = head
      BY <1>4 DEF StagedPaths, HeadFiles
    <2>2. ASSUME NEW e \in Deliveries PROVE StagedOk(e)' /\ CommitOk(e)'
      <3>1. calls'[e] = calls[e]
        BY <1>4
      <3> QED
        BY <1>3, <1>4, <2>1, <3>1
    <2> QED
      BY <1>2, <2>2 DEF StageInv
  <1>5. ASSUME NEW d \in Deliveries, NEW w \in Works, Begin(d, w)
        PROVE  StageInv'
    <2>1. UNCHANGED <<git, others>>
      BY <1>5, Zenon DEF Begin
    <2>2. /\ calls' = [calls EXCEPT ![d] = calls'[d]]
          /\ calls'[d].commit = None /\ calls'[d].phase \in {"inspect", "record"}
      BY <1>5, BeginShape
    <2>3. /\ StagedPaths' \subseteq StagedPaths \cup {} /\ {} \in SUBSET Paths
          /\ head' = head /\ UNCHANGED interrupted
      BY <2>1 DEF StagedPaths, HeadFiles, git, others
    <2>4. ASSUME NEW e \in Deliveries \ {d} PROVE StagedOk(e)' /\ CommitOk(e)'
      <3>1. calls'[e] = calls[e]
        BY <1>1, <2>2
      <3> QED
        BY <1>3, <2>3, <3>1
    <2>5. StagedOk(d)' /\ CommitOk(d)'
      BY <2>2 DEF StagedOk, CommitOk
    <2> QED
      BY <1>2, <2>4, <2>5 DEF StageInv
  <1>6. ASSUME NEW d \in Deliveries, Step(d) \/ Die(d)
        PROVE  StageInv'
    <2>1. /\ Underway(d) /\ ~At(d, "idle")
          /\ calls' = [calls EXCEPT ![d] = calls'[d]]
          /\ \/ calls'[d].phase \in Ended
             \/ calls'[d].phase = "record"
             \/ Precedes(calls[d].phase, calls'[d].phase)
          /\ \/ calls'[d].commit = calls[d].commit
             \/ Commit(d) /\ calls'[d].phase = "push"
      BY <1>6, StepShape DEF At, Underway, Working
    <2>2. WorkOf(d) \in Works /\ Changed[WorkOf(d)] \in SUBSET Paths
      BY <2>1, ChangedType DEF TypeInv
    <2>3. /\ StagedPaths' \subseteq StagedPaths \cup Changed[WorkOf(d)]
          /\ head' \in {head, BranchOf[WorkOf(d)]}
          /\ ~Gated(d) => StagedPaths' = StagedPaths /\ head' = head
          /\ UNCHANGED interrupted
      BY <1>6, StepStaged
    <2>4. \A e \in Deliveries : Underway(e) /\ Gated(d) =>
            /\ Changed[WorkOf(d)] \subseteq FilesBeside(e)
            /\ BranchOf[WorkOf(d)] \in BranchesBeside(e)
      BY <2>1, UnderwayBeside DEF StageInv, FilesBeside, BranchesBeside
    <2>5. \A e \in Deliveries \ {d} : StagedOk(e)' /\ CommitOk(e)'
      <3> SUFFICES ASSUME NEW e \in Deliveries \ {d} PROVE StagedOk(e)' /\ CommitOk(e)'
        OBVIOUS
      <3>1. calls'[e] = calls[e]
        BY <1>1, <2>1
      <3>2. CASE Gated(d)
        BY <1>3, <2>2, <2>3, <2>4, <3>1, <3>2
      <3>3. CASE ~Gated(d)
        <4>1. StagedPaths' \subseteq StagedPaths \cup {} /\ {} \in SUBSET Paths
          BY <2>3, <3>3
        <4> QED
          BY <1>3, <2>3, <3>1, <3>3, <4>1
      <3> QED
        BY <3>2, <3>3
    <2>6. /\ FilesBeside(d) \subseteq FilesBeside(d)'
          /\ BranchesBeside(d) \subseteq BranchesBeside(d)'
      BY <2>1, BesideGrows
    <2>7. StagedOk(d) /\ CommitOk(d)
      BY DEF StageInv
    <2>8. StagedOk(d)'
      <3>1. calls'[d].phase = "branch" => StagedPaths \ Artifacts \subseteq FilesBeside(d)
        <4> SUFFICES ASSUME calls'[d].phase = "branch"
                     PROVE  StagedPaths \ Artifacts \subseteq FilesBeside(d)
          OBVIOUS
        <4>1. calls[d].phase = "inspect"
          BY <2>1 DEF Ended, Precedes
        <4>2. Inspect(d) \/ Die(d)
          BY <1>6, <4>1 DEF Step, TakeBranch, StagePaths, Commit, Push, OpenPullRequest, Comment,
                            Record, At
        <4>3. UnexpectedPaths(WorkOf(d)) = {}
          BY <1>1, <4>2, SetCall DEF Inspect, Die, Changes, Ended
        <4> QED
          BY <2>1, <2>2, <2>4, <4>1, <4>3, InspectedStaged DEF Gated, Working
      <3>2. calls'[d].phase \in {"stage", "commit"} => calls[d].phase \in {"branch", "stage"}
        BY <2>1 DEF Ended, Precedes
      <3>3. calls'[d].phase = "commit" => calls[d].phase = "stage"
        BY <2>1 DEF Ended, Precedes
      <3>4. calls'[d].phase = "stage" => head' = BranchOf[WorkOf(d)]
        <4> SUFFICES ASSUME calls'[d].phase = "stage" PROVE head' = BranchOf[WorkOf(d)]
          OBVIOUS
        <4>1. calls[d].phase = "branch"
          BY <2>1 DEF Ended, Precedes
        <4>2. TakeBranch(d) \/ Die(d)
          BY <1>6, <4>1 DEF Step, Inspect, StagePaths, Commit, Push, OpenPullRequest, Comment,
                            Record, At
        <4> QED
          BY <1>1, <4>2, SetCall DEF TakeBranch, NewBranch, Die, Changes, Ended, git
      <3>5. calls'[d].phase \in {"branch", "stage", "commit"} => Gated(d)
        BY <2>1 DEF Gated, Working, Ended, Precedes
      <3> QED
        BY <2>1, <2>3, <2>4, <2>6, <2>7, <3>1, <3>2, <3>3, <3>4, <3>5 DEF StagedOk
    <2>9. CommitOk(d)'
      <3>1. CASE calls'[d].commit = calls[d].commit
        BY <2>3, <2>6, <2>7, <3>1 DEF CommitOk
      <3>2. CASE Commit(d) /\ Committed(d, head)
        <4> DEFINE made == [branch |-> head, paths |-> StagedPaths]
        <4>1. calls'[d].commit = made
          BY <1>1, <3>2 DEF Committed, Call
        <4>2. /\ StagedPaths \ Artifacts \subseteq FilesBeside(d)
              /\ head \in BranchesBeside(d) \/ d \in interrupted
          BY <2>7, <3>2 DEF StagedOk, Commit, At
        <4> QED
          BY <2>3, <2>6, <4>1, <4>2 DEF CommitOk
      <3>3. CASE Raise(d)
        BY <1>1, <3>1, <3>3, SetCall
      <3> QED
        BY <2>1, <3>1, <3>2, <3>3 DEF Commit
    <2> QED
      BY <1>2, <2>5, <2>8, <2>9 DEF StageInv
  <1>7. ASSUME UNCHANGED calls, StagedPaths' \subseteq StagedPaths, SwitchedUnder
        PROVE  StageInv'
    <2> SUFFICES ASSUME NEW e \in Deliveries PROVE StagedOk(e)' /\ CommitOk(e)'
      BY <1>2 DEF StageInv
    <2>1. FilesBeside(e)' = FilesBeside(e) /\ BranchesBeside(e)' = BranchesBeside(e)
      BY <1>7 DEF Beside, FilesBeside, BranchesBeside, WorkOf
    <2>2. StagedOk(e) /\ CommitOk(e)
      BY DEF StageInv
    <2>3. StagedOk(e)'
      BY <1>7, <2>1, <2>2 DEF StagedOk, SwitchedUnder, At
    <2>4. CommitOk(e)'
      BY <1>7, <2>1, <2>2 DEF CommitOk, SwitchedUnder
    <2> QED
      BY <2>3, <2>4
  <1>8. ASSUME NEW w \in Works, PlanBranch(w)
        PROVE  StageInv'
    <2>1. HeadFiles' = HeadFiles
      BY <1>8, NewBranchFiles, DeliveryAssumption DEF PlanBranch
    <2> QED
      BY <1>7, <1>8, <2>1 DEF PlanBranch, StagedPaths
  <1>9. ASSUME NEW b \in Branches, CheckOut(b)
        PROVE  StageInv'
    <2>1. StagedPaths' \subseteq StagedPaths
      BY <1>9, CheckOutFiles DEF StagedPaths
    <2> QED
      BY <1>7, <1>9, <2>1 DEF CheckOut
  <1> QED
    BY <1>4, <1>5, <1>6, <1>8, <1>9, DeliveryAssumption DEF Next, Apply, git, others

(* But for artifacts, a commit holds only files of works that the gate     *)
(* lets pass and whose deliveries ran beside it, under another key or      *)
(* none; it is on the branch of one of them, or of who checked out another *)
(* under the delivery.                                                     *)
THEOREM CommitsHoldReceipts == Spec => []CommitsReceiptsOnly
  <1>1. Init => StageInv
    <2> SUFFICES ASSUME Init PROVE StageInv
      OBVIOUS
    <2>1. \A d \in Deliveries : calls[d] = IdleCall
      BY DEF Init
    <2> QED
      BY <2>1 DEF StageInv, KeysApart, StagedOk, CommitOk, IdleCall, Underway, Working
  <1>2. StageInv => CommitsReceiptsOnly
    BY DEF StageInv, CommitOk, CommitsReceiptsOnly, FilesBeside, BranchesBeside
  <1> QED
    BY <1>1, <1>2, InitTypeInv, NextTypeInv, InitCommitRowInv, NextCommitInv, NextStageInv, PTL
    DEF Spec

-----------------------------------------------------------------------------
(* How often a work is committed.                                          *)

CommittersOf(w) == {d \in Deliveries : WorkOf(d) = w /\ calls[d].commit # None}
WritersOf(p) == {v \in applied : p \in Changed[v]}

One(fact) == IF fact THEN 1 ELSE 0

(* What was written to a file last is yet to be staged, or to be committed *)
(* as a delivery of w that has staged its files will do.                   *)
Unstaged(p) == tree[p] # index[p]
Uncommitted(w, p) ==
    index[p] # HeadFiles[p] \/ \E d \in Deliveries : WorkOf(d) = w /\ At(d, "commit")

(* Each commit of w takes up what a work has written to each of its files: *)
(* the commits there are and the one to come are no more than the writers. *)
CommitsCounted(w, p) ==
    Cardinality(CommittersOf(w)) + One(Unstaged(p)) + One(Uncommitted(w, p))
        <= Cardinality(WritersOf(p))

CountInv ==
    /\ \A w \in Works : KeyOf[w] # None => \A p \in Changed[w] : CommitsCounted(w, p)
    /\ \A d \in Deliveries : calls[d].commit # None => Changed[WorkOf(d)] # {}

LEMMA CountTypes ==
    ASSUME TypeInv, NEW w \in Works, NEW p \in Paths
    PROVE  /\ IsFiniteSet(CommittersOf(w)) /\ Cardinality(CommittersOf(w)) \in Nat
           /\ IsFiniteSet(WritersOf(p)) /\ Cardinality(WritersOf(p)) \in Nat
           /\ IsFiniteSet(applied)
  <1>1. CommittersOf(w) \in SUBSET Deliveries /\ IsFiniteSet(Deliveries)
    BY DeliveryAssumption DEF CommittersOf
  <1>2. applied \in SUBSET Works /\ IsFiniteSet(Works)
    BY WorkAssumption DEF TypeInv, TypeOK
  <1>3. IsFiniteSet(applied) /\ WritersOf(p) \in SUBSET applied
    BY <1>2, FS_Subset DEF WritersOf
  <1>4. IsFiniteSet(CommittersOf(w)) /\ IsFiniteSet(WritersOf(p))
    BY <1>1, <1>3, FS_Subset
  <1> QED
    BY <1>3, <1>4, FS_CardinalityType

(* A step that makes no commit leaves the committers of every work alone.  *)
LEMMA CommittersKept ==
    ASSUME NEW w \in Works,
           \A e \in Deliveries :
             /\ calls'[e].commit = calls[e].commit
             /\ calls[e].commit # None => calls'[e].work = calls[e].work
    PROVE  CommittersOf(w)' = CommittersOf(w)
  BY DEF CommittersOf, WorkOf

(* Where neither the committers nor the writers change, it is enough that  *)
(* no more is left to stage and to commit.                                 *)
LEMMA LeftToCommit ==
    ASSUME TypeInv, NEW w \in Works, NEW p \in Paths, CommitsCounted(w, p),
           CommittersOf(w)' = CommittersOf(w), WritersOf(p)' = WritersOf(p),
           One(Unstaged(p))' + One(Uncommitted(w, p))'
             <= One(Unstaged(p)) + One(Uncommitted(w, p))
    PROVE  CommitsCounted(w, p)'
  <1>1. Cardinality(CommittersOf(w)) \in Nat /\ Cardinality(WritersOf(p)) \in Nat
    BY CountTypes
  <1>2. /\ One(Unstaged(p)) \in Nat /\ One(Uncommitted(w, p)) \in Nat
        /\ One(Unstaged(p))' \in Nat /\ One(Uncommitted(w, p))' \in Nat
    BY DEF One
  <1>3. /\ Cardinality(CommittersOf(w))' = Cardinality(CommittersOf(w))
        /\ Cardinality(WritersOf(p))' = Cardinality(WritersOf(p))
    OBVIOUS
  <1> QED
    BY <1>1, <1>2, <1>3 DEF CommitsCounted

(* git add makes the index of the files of a work what the tree is.        *)
LEMMA StagePathsCounted ==
    ASSUME TypeInv, NEW d \in Deliveries, StagePaths(d),
           NEW w \in Works, NEW p \in Changed[w], CommitsCounted(w, p)
    PROVE  CommitsCounted(w, p)'
  <1> USE DEF WorkOf
  <1>1. /\ TypeOK /\ p \in Paths /\ calls \in [Deliveries -> Call]
    BY ChangedType DEF TypeInv, TypeOK
  <1>2. /\ calls' = [calls EXCEPT ![d] = calls'[d]]
        /\ calls'[d].work = calls[d].work /\ calls'[d].commit = calls[d].commit
        /\ calls'[d].phase = "commit" => \A q \in Changed[WorkOf(d)] : index'[q] # HeadFiles[q]
    BY <1>1, SetCall DEF StagePaths, Changes, Working, Ended
  <1>3. \A e \in Deliveries \ {d} : calls'[e] = calls[e]
    BY <1>1, <1>2
  <1>4. /\ CommittersOf(w)' = CommittersOf(w) /\ WritersOf(p)' = WritersOf(p)
        /\ UNCHANGED tree /\ HeadFiles' = HeadFiles
    BY <1>2, <1>3, CommittersKept DEF StagePaths, WritersOf, HeadFiles, others
  <1>5. CASE p \in Changed[WorkOf(d)]
    <2>1. index'[p] = tree[p]
      BY <1>1, <1>5 DEF StagePaths
    <2>2. ~Unstaged(p)'
      BY <1>4, <2>1 DEF Unstaged
    <2>3. Uncommitted(w, p)' => Unstaged(p) \/ Uncommitted(w, p)
      <3>1. CASE index'[p] # HeadFiles'[p]
        BY <1>4, <2>1, <3>1 DEF Unstaged, Uncommitted
      <3>2. CASE At(d, "commit")' /\ WorkOf(d) = w
        BY <1>2, <1>4, <1>5, <2>1, <3>2 DEF Unstaged, Uncommitted, At
      <3>3. CASE \E e \in Deliveries \ {d} : WorkOf(e)' = w /\ At(e, "commit")'
        BY <1>3, <3>3 DEF Uncommitted, At
      <3> QED
        BY <1>2, <3>1, <3>2, <3>3 DEF Uncommitted
    <2> QED
      BY <1>1, <1>4, <2>2, <2>3, LeftToCommit DEF One
  <1>6. CASE p \notin Changed[WorkOf(d)]
    <2>1. index'[p] = index[p] /\ WorkOf(d) # w
      BY <1>1, <1>6 DEF StagePaths, TypeOK, Files
    <2>2. Unstaged(p)' = Unstaged(p)
      BY <1>4, <2>1 DEF Unstaged
    <2>3. Uncommitted(w, p)' = Uncommitted(w, p)
      <3>1. index'[p] # HeadFiles'[p] <=> index[p] # HeadFiles[p]
        BY <1>4, <2>1
      <3>2. \A e \in Deliveries :
              WorkOf(e)' = w /\ At(e, "commit")' <=> WorkOf(e) = w /\ At(e, "commit")
        BY <1>2, <1>3, <2>1 DEF At
      <3> QED
        BY <3>1, <3>2 DEF Uncommitted
    <2> QED
      BY <1>1, <1>4, <2>2, <2>3, LeftToCommit DEF One
  <1> QED
    BY <1>5, <1>6

(* A commit of w takes up what is staged, and no other delivery of w is    *)
(* about to make one; a commit of another only adds the index to the head. *)
LEMMA CommitCounted ==
    ASSUME TypeInv, CommitInv, KeysApart, NEW d \in Deliveries, Commit(d), Committed(d, head),
           NEW w \in Works, KeyOf[w] # None, NEW p \in Changed[w], CommitsCounted(w, p)
    PROVE  CommitsCounted(w, p)'
  <1> USE DEF WorkOf
  <1> DEFINE made == [branch |-> head, paths |-> StagedPaths]
             s == [calls[d] EXCEPT !.phase = "push", !.commit = made]
             b == [branches[head] EXCEPT !.files = index, !.commits = @ \cup {d}]
  <1>1. /\ TypeOK /\ p \in Paths /\ calls \in [Deliveries -> Call] /\ calls[d] \in Call
        /\ branches \in [Branches -> Branch] /\ head \in Branches /\ branches[head] \in Branch
    BY ChangedType DEF TypeInv, TypeOK
  <1>2. /\ calls' = [calls EXCEPT ![d] = s] /\ branches' = [branches EXCEPT ![head] = b]
    BY <1>1 DEF Committed
  <1>3. /\ s.phase = "push" /\ s.work = calls[d].work /\ s.commit = made
        /\ b.files = index
    BY <1>1 DEF Call, Branch
  <1>4. made # None
    <2>1. made \in CommitMade
      BY <1>1 DEF CommitMade, StagedPaths
    <2> QED
      BY <2>1, NoneAssumption
  <1> HIDE DEF s, b, made
  <1>5. calls'[d] = s /\ \A e \in Deliveries \ {d} : calls'[e] = calls[e]
    BY <1>1, <1>2
  <1>6. /\ UNCHANGED <<tree, index>> /\ WritersOf(p)' = WritersOf(p)
        /\ Unstaged(p)' = Unstaged(p)
    BY DEF Commit, WritersOf, Unstaged, others
  <1>7. index'[p] = HeadFiles'[p]
    <2>1. head' = head /\ branches'[head] = b
      BY <1>1, <1>2 DEF Commit
    <2> QED
      BY <1>3, <1>6, <2>1 DEF HeadFiles
  <1>8. At(d, "commit") /\ calls[d].commit = None /\ ~At(d, "commit")'
    BY <1>3, <1>5 DEF Commit, At, CommitInv
  <1>9. CASE WorkOf(d) = w
    <2>1. CommittersOf(w)' = CommittersOf(w) \cup {d} /\ d \notin CommittersOf(w)
      BY <1>3, <1>4, <1>5, <1>8, <1>9 DEF CommittersOf
    <2>2. /\ Cardinality(CommittersOf(w)) \in Nat /\ Cardinality(WritersOf(p)) \in Nat
          /\ Cardinality(CommittersOf(w))' = Cardinality(CommittersOf(w)) + 1
      BY <1>1, <2>1, CountTypes, FS_AddElement
    <2>3. \A e \in Deliveries \ {d} : ~(WorkOf(e) = w /\ At(e, "commit"))
      BY <1>8, <1>9 DEF KeysApart, At, Underway, Working
    <2>4. Uncommitted(w, p) /\ ~Uncommitted(w, p)'
      <3>1. Uncommitted(w, p)
        BY <1>8, <1>9 DEF Uncommitted
      <3>2. ~\E e \in Deliveries : WorkOf(e)' = w /\ At(e, "commit")'
        BY <1>5, <1>8, <2>3 DEF At
      <3> QED
        BY <1>7, <3>1, <3>2 DEF Uncommitted
    <2>5. /\ One(Unstaged(p))' = One(Unstaged(p)) /\ One(Unstaged(p)) \in Nat
          /\ One(Uncommitted(w, p)) = 1 /\ One(Uncommitted(w, p))' = 0
          /\ Cardinality(WritersOf(p))' = Cardinality(WritersOf(p))
      BY <1>6, <2>4 DEF One
    <2> QED
      BY <2>2, <2>5 DEF CommitsCounted
  <1>10. CASE WorkOf(d) # w
    <2>1. CommittersOf(w)' = CommittersOf(w)
      BY <1>3, <1>5, <1>10 DEF CommittersOf
    <2>2. Uncommitted(w, p)' => Uncommitted(w, p)
      BY <1>3, <1>5, <1>7, <1>10 DEF Uncommitted, At
    <2> QED
      BY <1>1, <1>6, <2>1, <2>2, LeftToCommit DEF One
  <1> QED
    BY <1>9, <1>10

LEMMA NextCounted ==
    ASSUME TypeInv, CommitInv, KeysApart, [Next]_vars,
           NEW w \in Works, KeyOf[w] # None, NEW p \in Changed[w], CommitsCounted(w, p)
    PROVE  CommitsCounted(w, p)'
  <1> USE DEF vars, git, others, WorkOf
  <1>1. /\ TypeOK /\ p \in Paths /\ calls \in [Deliveries -> Call] /\ tree \in Files
    BY ChangedType DEF TypeInv, TypeOK
  <1>2. ASSUME /\ CommittersOf(w)' = CommittersOf(w) /\ WritersOf(p)' = WritersOf(p)
               /\ UNCHANGED <<tree, index>> /\ HeadFiles' = HeadFiles
               /\ \A e \in Deliveries : At(e, "commit")' /\ WorkOf(e)' = w
                                            => At(e, "commit") /\ WorkOf(e) = w
        PROVE  CommitsCounted(w, p)'
    <2>1. Unstaged(p)' = Unstaged(p)
      BY <1>2 DEF Unstaged
    <2>2. Uncommitted(w, p)' => Uncommitted(w, p)
      BY <1>2 DEF Uncommitted
    <2> QED
      BY <1>1, <1>2, <2>1, <2>2, LeftToCommit DEF One
  <1>3. CASE UNCHANGED vars
    <2>1. CommittersOf(w)' = CommittersOf(w)
      BY <1>3, CommittersKept
    <2> QED
      BY <1>2, <1>3, <2>1 DEF WritersOf, HeadFiles, At
  <1>4. ASSUME NEW d \in Deliveries, NEW x \in Works, Begin(d, x)
        PROVE  CommitsCounted(w, p)'
    <2>1. UNCHANGED <<git, github, others, rows>>
      BY <1>4, Zenon DEF Begin
    <2>2. /\ calls' = [calls EXCEPT ![d] = calls'[d]] /\ calls[d] = IdleCall
          /\ calls'[d].commit = None /\ calls'[d].phase \in {"inspect", "record"}
      BY <1>4, BeginShape
    <2>3. calls[d].commit = None /\ \A e \in Deliveries \ {d} : calls'[e] = calls[e]
      BY <1>1, <2>2 DEF IdleCall
    <2>4. CommittersOf(w)' = CommittersOf(w)
      BY <2>2, <2>3, CommittersKept
    <2>5. \A e \in Deliveries : At(e, "commit")' => At(e, "commit") /\ calls'[e] = calls[e]
      BY <2>2, <2>3 DEF At
    <2>6. WritersOf(p)' = WritersOf(p) /\ UNCHANGED <<tree, index>> /\ HeadFiles' = HeadFiles
      BY <2>1 DEF WritersOf, HeadFiles
    <2> QED
      BY <1>2, <2>4, <2>5, <2>6
  <1>5. ASSUME NEW d \in Deliveries, Step(d) \/ Die(d)
        PROVE  CommitsCounted(w, p)'
    <2>1. /\ calls' = [calls EXCEPT ![d] = calls'[d]] /\ calls'[d].work = calls[d].work
          /\ \/ calls'[d].phase \in Ended
             \/ calls'[d].phase = "record"
             \/ Precedes(calls[d].phase, calls'[d].phase)
          /\ \/ calls'[d].commit = calls[d].commit
             \/ Commit(d) /\ calls'[d].phase = "push"
      BY <1>5, StepShape
    <2>2. \A e \in Deliveries \ {d} : calls'[e] = calls[e]
      BY <1>1, <2>1
    <2>3. ASSUME calls'[d].commit = calls[d].commit, UNCHANGED <<tree, index, applied>>,
                 HeadFiles' = HeadFiles, ~At(d, "stage")
          PROVE  CommitsCounted(w, p)'
      <3>1. CommittersOf(w)' = CommittersOf(w)
        BY <2>1, <2>2, <2>3, CommittersKept
      <3>2. calls'[d].phase # "commit"
        BY <2>1, <2>3 DEF Ended, Precedes, At
      <3>3. \A e \in Deliveries : At(e, "commit")' => At(e, "commit") /\ calls'[e] = calls[e]
        BY <2>2, <3>2 DEF At
      <3> QED
        BY <1>2, <2>3, <3>1, <3>3 DEF WritersOf
    <2>4. CASE StagePaths(d)
      BY <2>4, StagePathsCounted
    <2>5. CASE TakeBranch(d)
      <3>1. UNCHANGED <<tree, index>> /\ HeadFiles' = HeadFiles
        BY <2>5, TakeBranchFiles
      <3> QED
        BY <2>1, <2>3, <2>5, <3>1 DEF TakeBranch, Commit, At
    <2>6. CASE Commit(d)
      <3>1. CASE Committed(d, head)
        BY <2>6, <3>1, CommitCounted
      <3>2. CASE Raise(d) /\ UNCHANGED branches
        <4>1. calls'[d].commit = calls[d].commit
          BY <1>1, <3>2, SetCall
        <4> QED
          BY <2>3, <2>6, <3>2, <4>1 DEF Commit, HeadFiles, At
      <3> QED
        BY <2>6, <3>1, <3>2 DEF Commit
    <2>7. CASE Inspect(d) \/ Push(d) \/ OpenPullRequest(d) \/ Comment(d) \/ Record(d) \/ Die(d)
      <3>1. UNCHANGED <<git, applied>>
        BY <2>7 DEF Inspect, Push, OpenPullRequest, Comment, Record, Die
      <3>2. CASE ~At(d, "stage") /\ ~At(d, "commit")
        BY <2>1, <2>3, <3>1, <3>2 DEF HeadFiles, Commit
      <3>3. CASE Die(d)
        <4>1. calls'[d].phase = "dead" /\ calls'[d].commit = calls[d].commit
          BY <1>1, <3>3, SetCall DEF Die, Changes, Ended
        <4>2. CommittersOf(w)' = CommittersOf(w)
          BY <2>1, <2>2, <4>1, CommittersKept
        <4>3. \A e \in Deliveries : At(e, "commit")' => At(e, "commit") /\ calls'[e] = calls[e]
          BY <2>2, <4>1 DEF At
        <4> QED
          BY <1>2, <3>1, <4>2, <4>3 DEF WritersOf, HeadFiles
      <3> QED
        BY <2>7, <3>2, <3>3 DEF Inspect, Push, OpenPullRequest, Comment, Record, At
    <2> QED
      BY <1>5, <2>4, <2>5, <2>6, <2>7 DEF Step
  <1>6. ASSUME NEW v \in Works, Apply(v)
        PROVE  CommitsCounted(w, p)'
    <2>1. UNCHANGED <<index, head, branches, calls>> /\ applied' = applied \cup {v}
          /\ v \notin applied
      BY <1>6 DEF Apply
    <2>2. CommittersOf(w)' = CommittersOf(w)
      BY <2>1, CommittersKept
    <2>3. Uncommitted(w, p)' = Uncommitted(w, p)
      BY <2>1 DEF Uncommitted, HeadFiles, At
    <2>4. CASE p \notin Changed[v]
      <3>1. tree'[p] = tree[p] /\ WritersOf(p)' = WritersOf(p)
        BY <1>1, <1>6, <2>1, <2>4 DEF Apply, WritersOf
      <3>2. Unstaged(p)' = Unstaged(p)
        BY <2>1, <3>1 DEF Unstaged
      <3> QED
        BY <1>1, <2>2, <2>3, <3>1, <3>2, LeftToCommit DEF One
    <2>5. CASE p \in Changed[v]
      <3>1. WritersOf(p)' = WritersOf(p) \cup {v} /\ v \notin WritersOf(p)
        BY <2>1, <2>5 DEF WritersOf
      <3>2. /\ Cardinality(WritersOf(p)) \in Nat /\ Cardinality(CommittersOf(w)) \in Nat
            /\ Cardinality(WritersOf(p))' = Cardinality(WritersOf(p)) + 1
        BY <1>1, <3>1, CountTypes, FS_AddElement
      <3>3. /\ One(Unstaged(p)) \in {0, 1} /\ One(Unstaged(p))' \in {0, 1}
            /\ One(Uncommitted(w, p)) \in {0, 1}
            /\ One(Uncommitted(w, p))' = One(Uncommitted(w, p))
            /\ Cardinality(CommittersOf(w))' = Cardinality(CommittersOf(w))
        BY <2>2, <2>3 DEF One
      <3> QED
        BY <3>2, <3>3 DEF CommitsCounted
    <2> QED
      BY <2>4, <2>5
  <1>7. ASSUME NEW b \in Branches, CheckOut(b)
        PROVE  CommitsCounted(w, p)'
    <2>1. UNCHANGED <<applied, calls>>
      BY <1>7 DEF CheckOut
    <2>2. CommittersOf(w)' = CommittersOf(w) /\ WritersOf(p)' = WritersOf(p)
      BY <2>1, CommittersKept DEF WritersOf
    <2>3. Unstaged(p)' => Unstaged(p)
      BY <1>1, <1>7, CheckOutFiles DEF Unstaged
    <2>4. Uncommitted(w, p)' => Uncommitted(w, p)
      <3>1. index'[p] # HeadFiles'[p] => index[p] # HeadFiles[p]
        BY <1>1, <1>7, CheckOutFiles
      <3> QED
        BY <2>1, <3>1 DEF Uncommitted, At
    <2> QED
      BY <1>1, <2>2, <2>3, <2>4, LeftToCommit DEF One
  <1>8. ASSUME NEW x \in Works, PlanBranch(x)
        PROVE  CommitsCounted(w, p)'
    <2>1. UNCHANGED <<tree, index, applied, calls>> /\ HeadFiles' = HeadFiles
      BY <1>8, NewBranchFiles, DeliveryAssumption DEF PlanBranch
    <2>2. CommittersOf(w)' = CommittersOf(w) /\ WritersOf(p)' = WritersOf(p)
      BY <2>1, CommittersKept DEF WritersOf
    <2> QED
      BY <1>2, <2>1, <2>2 DEF At
  <1> QED
    BY <1>3, <1>4, <1>5, <1>6, <1>7, <1>8, DeliveryAssumption DEF Next

LEMMA NextCountInv == TypeInv /\ CommitInv /\ StageInv /\ CountInv /\ [Next]_vars => CountInv'
  <1> SUFFICES ASSUME TypeInv, CommitInv, StageInv, CountInv, [Next]_vars PROVE CountInv'
    OBVIOUS
  <1>1. \A w \in Works : KeyOf[w] # None => \A p \in Changed[w] : CommitsCounted(w, p)'
    BY NextCounted DEF CountInv, StageInv
  <1>2. ASSUME NEW d \in Deliveries, calls'[d].commit # None
        PROVE  Changed[WorkOf(d)'] # {}
    <2> USE DEF WorkOf
    <2>1. CASE calls[d].commit # None
      <3>1. ~At(d, "idle")
        BY <2>1 DEF TypeInv, IdleCall
      <3>2. calls'[d].work = calls[d].work
        BY <3>1, BesideGrows
      <3> QED
        BY <2>1, <3>2 DEF CountInv
    <2>2. CASE calls[d].commit = None
      <3>1. calls \in [Deliveries -> Call]
        BY DEF TypeInv, TypeOK
      <3>2. ASSUME NEW e \in Deliveries, Step(e) \/ Die(e)
            PROVE  Commit(d) /\ calls'[d].work = calls[d].work
        <4>1. /\ calls' = [calls EXCEPT ![e] = calls'[e]] /\ calls'[e].work = calls[e].work
              /\ calls'[e].commit = calls[e].commit \/ Commit(e)
          BY <3>2, StepShape
        <4> QED
          BY <1>2, <2>2, <3>1, <4>1
      <3>3. ASSUME NEW e \in Deliveries, NEW x \in Works, Begin(e, x)
            PROVE  FALSE
        <4>1. calls' = [calls EXCEPT ![e] = calls'[e]] /\ calls'[e].commit = None
          BY <3>3, BeginShape
        <4> QED
          BY <1>2, <2>2, <3>1, <4>1
      <3>4. Commit(d) /\ calls'[d].work = calls[d].work
        BY <1>2, <2>2, <3>2, <3>3 DEF Next, Apply, PlanBranch, CheckOut, vars
      <3> QED
        BY <3>4 DEF Commit, TypeInv, Gated, At, Working
    <2> QED
      BY <2>1, <2>2
  <1> QED
    BY <1>1, <1>2 DEF CountInv

(* A work that is delivered under a concurrency key is committed once, and *)
(* again at most once for every other work that has written to its files.  *)
THEOREM CommittedOnce == Spec => []OneCommitPerWork
  <1>1. Init => StageInv /\ CountInv
    <2> SUFFICES ASSUME Init PROVE StageInv /\ CountInv
      OBVIOUS
    <2>1. \A d \in Deliveries : calls[d] = IdleCall
      BY DEF Init
    <2>2. StageInv
      BY <2>1 DEF StageInv, KeysApart, StagedOk, CommitOk, IdleCall, Underway, Working
    <2>3. ASSUME NEW w \in Works, NEW p \in Changed[w] PROVE CommitsCounted(w, p)
      <3>1. p \in Paths /\ Base \in Branches
        BY ChangedType, DeliveryAssumption
      <3>2. CommittersOf(w) = {} /\ WritersOf(p) = {}
        BY <2>1 DEF Init, CommittersOf, WritersOf, IdleCall
      <3>3. ~Unstaged(p) /\ ~Uncommitted(w, p)
        BY <2>1, <3>1 DEF Init, Unstaged, Uncommitted, HeadFiles, IdleCall, At
      <3> QED
        BY <3>2, <3>3, FS_EmptySet DEF CommitsCounted, One
    <2> QED
      BY <2>1, <2>2, <2>3 DEF CountInv, IdleCall
  <1>2. TypeInv /\ CountInv => OneCommitPerWork
    <2> SUFFICES ASSUME TypeInv, CountInv, NEW w \in Works, KeyOf[w] # None
                 PROVE  Cardinality(CommittersOf(w)) <= 1 + Cardinality(OverwrittenBy(w))
      BY DEF OneCommitPerWork, CommittersOf
    <2>1. OverwrittenBy(w) \in SUBSET applied /\ IsFiniteSet(applied)
      <3>1. applied \in SUBSET Works /\ IsFiniteSet(Works)
        BY WorkAssumption DEF TypeInv, TypeOK
      <3> QED
        BY <3>1, FS_Subset DEF OverwrittenBy
    <2>2. IsFiniteSet(OverwrittenBy(w)) /\ Cardinality(OverwrittenBy(w)) \in Nat
      BY <2>1, FS_Subset, FS_CardinalityType
    <2>3. CASE CommittersOf(w) = {}
      BY <2>2, <2>3, FS_EmptySet
    <2>4. CASE CommittersOf(w) # {}
      <3>1. PICK p \in Changed[w] : CommitsCounted(w, p)
        BY <2>4 DEF CountInv, CommittersOf
      <3>2. p \in Paths
        BY ChangedType
      <3>3. WritersOf(p) \in SUBSET (OverwrittenBy(w) \cup {w})
        BY <3>1 DEF WritersOf, OverwrittenBy
      <3>4. /\ IsFiniteSet(OverwrittenBy(w) \cup {w})
            /\ Cardinality(OverwrittenBy(w) \cup {w}) = Cardinality(OverwrittenBy(w)) + 1
        BY <2>2, FS_AddElement DEF OverwrittenBy
      <3>5. Cardinality(WritersOf(p)) <= Cardinality(OverwrittenBy(w)) + 1
        BY <3>3, <3>4, FS_Subset
      <3>6. /\ Cardinality(CommittersOf(w)) \in Nat /\ Cardinality(WritersOf(p)) \in Nat
            /\ One(Unstaged(p)) \in Nat /\ One(Uncommitted(w, p)) \in Nat
        BY <3>2, CountTypes DEF One
      <3> QED
        BY <2>2, <3>1, <3>5, <3>6 DEF CommitsCounted
    <2> QED
      BY <2>3, <2>4
  <1> QED
    BY <1>1, <1>2, InitTypeInv, NextTypeInv, InitCommitRowInv, NextCommitInv, NextStageInv,
       NextCountInv, PTL
    DEF Spec

-----------------------------------------------------------------------------
(* The approvals that a work needs.                                        *)

(* What a policy must be for the risk to matter: a higher risk needs no    *)
(* fewer approvals, as in the built-in policy.  Nothing in the code keeps  *)
(* a tenant or a file from replacing an entry by a smaller number.         *)
OrderlyPolicy ==
    /\ Policy.required_approvals_by_risk \in [LOW..CRITICAL -> Int]
    /\ \A r, s \in LOW..CRITICAL : r <= s =>
         Policy.required_approvals_by_risk[r] <= Policy.required_approvals_by_risk[s]
    /\ Policy.max_low_risk_changed_files \in Int
    /\ Policy.max_medium_risk_changed_files \in Int

LEMMA HighestRisk ==
    ASSUME NEW w \in Works
    PROVE  RiskLevel(w) = IF Critical(w) THEN CRITICAL ELSE IF High(w) THEN HIGH
                          ELSE IF Medium(w) THEN MEDIUM ELSE LOW
  <1> USE DEF LOW, MEDIUM, HIGH, CRITICAL
  <1> DEFINE top == IF Critical(w) THEN CRITICAL ELSE IF High(w) THEN HIGH
                    ELSE IF Medium(w) THEN MEDIUM ELSE LOW
             Raised(r) == CASE r = LOW -> TRUE        [] r = MEDIUM -> Medium(w)
                            [] r = HIGH -> High(w)    [] r = CRITICAL -> Critical(w)
             found == {r \in LOW..CRITICAL : Raised(r)}
  <1>1. /\ 0 \in found /\ (1 \in found <=> Medium(w))
        /\ (2 \in found <=> High(w)) /\ (3 \in found <=> Critical(w))
    OBVIOUS
  <1>2. \A r \in found : r \in 0..3
    OBVIOUS
  <1>3. RiskLevel(w) = Max(found)
    BY DEF RiskLevel
  <1> HIDE DEF found
  <1>4. top \in found /\ \A r \in found : top >= r
    <2>1. \A r \in 0..3 : r = 0 \/ r = 1 \/ r = 2 \/ r = 3
      OBVIOUS
    <2> QED
      BY <1>1, <1>2, <2>1
  <1> HIDE DEF top
  <1>5. Max(found) = top
    <2>1. Max(found) \in found /\ \A r \in found : Max(found) >= r
      BY <1>4 DEF Max
    <2> QED
      BY <1>2, <1>4, <2>1
  <1> QED
    BY <1>3, <1>5 DEF top

LEMMA RiskInherited ==
    ASSUME OrderlyPolicy, NEW v \in Works, NEW w \in Works, AsRisky(v, w)
    PROVE  RequiredApprovals(w) <= RequiredApprovals(v)
  <1>1. \A patterns : Matching(patterns, w) \subseteq Matching(patterns, v)
    BY DEF Matching, AsRisky
  <1>2. Len(Receipts[w]) <= Len(Receipts[v])
        /\ Len(Receipts[w]) \in Nat /\ Len(Receipts[v]) \in Nat
    BY WorkAssumption DEF AsRisky
  <1>3. Critical(w) => Critical(v)
    <2>1. Matching(Policy.critical_risk_paths, w) \subseteq Matching(Policy.critical_risk_paths, v)
      BY <1>1
    <2> QED
      BY <2>1 DEF Critical, AsRisky
  <1>4. High(w) => High(v)
    <2>1. Matching(Policy.high_risk_paths, w) \subseteq Matching(Policy.high_risk_paths, v)
      BY <1>1
    <2> QED
      BY <1>2, <2>1 DEF High, AsRisky, OrderlyPolicy
  <1>5. Medium(w) => Medium(v)
    BY <1>2, WorkAssumption DEF Medium, AsRisky, OrderlyPolicy
  <1>6. RiskLevel(w) <= RiskLevel(v) /\ {RiskLevel(w), RiskLevel(v)} \subseteq LOW..CRITICAL
    BY <1>3, <1>4, <1>5, HighestRisk DEF LOW, MEDIUM, HIGH, CRITICAL
  <1> QED
    BY <1>6 DEF OrderlyPolicy, RequiredApprovals

(* Under such a policy a work that is being delivered needs at least the   *)
(* approvals of every work with less to worry about, in no more receipts.  *)
THEOREM RiskNotWaved == ASSUME OrderlyPolicy PROVE Spec => []NoRiskWaved
  <1>1. TypeInv => NoRiskWaved
    <2> SUFFICES ASSUME TypeInv, NEW d \in Deliveries, calls[d].phase \in Working,
                        NEW w \in Works, AsRisky(WorkOf(d), w)
                 PROVE  RequiredApprovals(w) <= RequiredApprovals(WorkOf(d))
      BY DEF NoRiskWaved
    <2>1. WorkOf(d) \in Works
      BY DEF TypeInv, At, Working
    <2> QED
      BY <2>1, RiskInherited
  <1> QED
    BY <1>1, InitTypeInv, NextTypeInv, PTL DEF Spec

=============================================================================
