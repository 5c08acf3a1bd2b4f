------------------------------ MODULE Planning ------------------------------
(***************************************************************************)
(* What a planning run knows of a repository, and what follows from it:    *)
(* the files it ranks for an issue (agents/context_builder/repository.py), *)
(* the plan that is left of a planner's draft (plan_validation.py), the    *)
(* files and directories a patch may touch (proposal_template.py,          *)
(* execute_patch_proposal.py) and the commands that verify it              *)
(* (verification_strategy.py, domain/policies/safety.py).                  *)
(*                                                                         *)
(* A path is one file of the repository or one it might get; a plan is a   *)
(* record of sequences, shorter than in the code by the caps below.        *)
(***************************************************************************)
EXTENDS Integers, FiniteSets, Sequences, SequencesExt, FiniteSetsExt

CONSTANTS
    Listing,       \* all paths in the order of git ls-files
    Briefer,       \* and by the length of their names
    Traits,        \* what a path's name and symbols have to do with the issue
    DirOf,         \* the directory of a path
    TopDir,        \* that of the root's files
    TestsDir,      \* "tests"
    NestedTests,   \* the directories whose names begin with "tests"
    PytestMarks,   \* files that tell of pytest
    Pytest, Unittest,  \* the commands suggested for them and for test files
    Dangerous,     \* commands with shell operators or destructive terms
    Approved,      \* commands with a prefix on the allowlist
    MaxSnapshot, MaxRanked, MaxInspect, MaxTests

Paths == ToSet(Listing)

ASSUME PlanningAssumption ==
    /\ Listing \in Seq(Paths)
    /\ Briefer \in Seq(Paths) /\ ToSet(Briefer) = Paths
    /\ Traits \in [Paths -> [keywords : Nat, symbols : Nat, primary : BOOLEAN,
                             source : BOOLEAN, test_wanted : BOOLEAN, control : BOOLEAN]]
    /\ DOMAIN DirOf = Paths
    /\ TestsDir \in NestedTests /\ TopDir \notin NestedTests
    /\ {MaxSnapshot, MaxRanked, MaxInspect, MaxTests} \subseteq Nat \ {0}

First(seq, n) == SubSeq(seq, 1, IF Len(seq) < n THEN Len(seq) ELSE n)

(* The elements of S in an order, which is given as a set of pairs.        *)
InOrder(S, before) ==
    CHOOSE seq \in [1..Cardinality(S) -> S] :
        \A i, j \in 1..Cardinality(S) : i < j => <<seq[i], seq[j]>> \in before

FirstAt(seq, x) ==
    CHOOSE i \in DOMAIN seq : seq[i] = x /\ \A j \in 1..(i - 1) : seq[j] # x

(* What a sequence has of S, each element once, where it comes first.      *)
Among(seq, S) ==
    LET found == ToSet(seq) \cap S
    IN  InOrder(found, {pair \in found \X found :
                          FirstAt(seq, pair[1]) < FirstAt(seq, pair[2])})

Deduped(seq) == Among(seq, ToSet(seq))

-----------------------------------------------------------------------------
(* The context of an issue.                                                *)

(* The tracked files, the first of them when they are many.                *)
Snapshot(tracked) == First(Among(Listing, tracked), MaxSnapshot)

IsTest(p) == DirOf[p] \in NestedTests

Weight(flag, n) == IF flag THEN n ELSE 0

(* Keywords of the issue in the name, symbols of the file that hold one,   *)
(* the language, and where the file lies.                                  *)
Score(p) ==
    LET t == Traits[p] IN
    8 * t.keywords + Min({10, 3 * t.symbols}) + Weight(t.primary, 2)
      + Weight(t.source, 3) + Weight(IsTest(p) /\ t.test_wanted, 2) + Weight(t.control, 1)

Before(p, q) ==
    \/ Score(p) > Score(q)
    \/ Score(p) = Score(q) /\ FirstAt(Briefer, p) < FirstAt(Briefer, q)

(* Files of no score are left out, unless there are no others: those that  *)
(* are taken then all score 1, and only their names order them.            *)
RankedFiles(snapshot) ==
    LET scored == {p \in ToSet(snapshot) : Score(p) > 0}
        taken == IF scored # {} THEN scored ELSE ToSet(First(snapshot, MaxRanked))
    IN  First(InOrder(taken, {pair \in taken \X taken : Before(pair[1], pair[2])}), MaxRanked)

(* The commands of a python project: pytest first where it is used.        *)
TestCommands(snapshot) ==
    (IF ToSet(snapshot) \cap PytestMarks # {} THEN <<Pytest>> ELSE <<>>)
      \o (IF \E p \in ToSet(snapshot) : IsTest(p) THEN <<Unittest>> ELSE <<>>)

Context(snapshot) ==
    [ranked |-> RankedFiles(snapshot), suggested |-> TestCommands(snapshot)]

-----------------------------------------------------------------------------
(* The plan.                                                               *)

(* The planner without a model inspects what is ranked.                    *)
HeuristicPlan(snapshot, context) ==
    [files |-> IF context.ranked # <<>> THEN First(context.ranked, MaxInspect)
                                        ELSE First(snapshot, MaxSnapshot),
     tests |-> IF context.suggested # <<>> THEN First(context.suggested, 2) ELSE <<Unittest>>]

(* PlanValidator.normalize: no file that the snapshot does not have, and   *)
(* the context's files and commands for those that are missing.            *)
Normalized(draft, snapshot, context) ==
    LET known == Among(draft.files, ToSet(snapshot))
    IN  [files |-> First(IF known # <<>> THEN known ELSE context.ranked, MaxInspect),
         tests |-> First(IF draft.tests # <<>> THEN Deduped(draft.tests) ELSE context.suggested,
                         MaxTests)]

-----------------------------------------------------------------------------
(* What a patch may touch.                                                 *)

(* The directories the template suggests for new files: those of the       *)
(* planned files, without the root.                                        *)
SuggestedDirs(allowed) == {DirOf[p] : p \in allowed} \ {TopDir}

(* What the generator lets a proposal write to: a suggested directory, or  *)
(* one whose name begins with "tests".                                     *)
MayPropose(op, allowed) ==
    IF op.type = "write_file"
    THEN DirOf[op.path] \in SuggestedDirs(allowed) \cup NestedTests
    ELSE op.path \in allowed

(* What the executor lets it create: tests stands for itself there.        *)
MayCreate(p, allowed) == DirOf[p] \in SuggestedDirs(allowed) \cup {TestsDir}

-----------------------------------------------------------------------------
(* How it is verified.                                                     *)

(* plan.tests, then the suggested commands, which are also the profile's.  *)
Candidates(plan, context) == plan.tests \o context.suggested \o context.suggested

Decision(command) ==
    CASE command \in Dangerous -> "block"
      [] command \in Approved \ Dangerous -> "allow"
      [] OTHER -> "review"

(* Slip: whatever the policy says of them.                                 *)
AnyCandidates(plan, context) == Deduped(Candidates(plan, context))

(* Each is tried once, if at all.                                          *)
AllowedCandidates(plan, context) ==
    LET candidates == Candidates(plan, context)
    IN  Among(candidates, {c \in ToSet(candidates) : Decision(c) = "allow"})
=============================================================================
