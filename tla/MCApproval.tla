----------------------------- MODULE MCApproval -----------------------------
(***************************************************************************)
(* Values for the constants of Approval, shared by its TLC runs.           *)
(***************************************************************************)
EXTENDS Approval, TLC

CONSTANTS a1, a2, bob, minor, major

(* a1 is for a minor change, a2 for the major change that is delivered.    *)
(* bob requests both and may review neither.                               *)
MCWorkOf == [a \in Approvals |-> IF a = a1 THEN minor ELSE major]
MCDelivers == [d \in Deliveries |-> major]
MCRequestedBy == [a \in Approvals |-> bob]
MCMayReview == [a \in Approvals |-> Actors]
MCExpiresIn == [a \in Approvals |-> IF a = a1 THEN None ELSE 1]

Evaluation(required, blocked) == [required |-> required, blocked |-> blocked]
MCPolicy(ofMinor, ofMajor) == [w \in Work |-> IF w = minor THEN ofMinor ELSE ofMajor]

(* The second policy blocks minor changes and lets major ones pass.        *)
TwoPolicies == {MCPolicy(Evaluation(2, FALSE), Evaluation(2, FALSE)),
                MCPolicy(Evaluation(1, TRUE), Evaluation(0, FALSE))}
OnePolicy == {MCPolicy(Evaluation(1, FALSE), Evaluation(1, FALSE))}

ReviewSymmetry == Permutations(Reviews)

=============================================================================
