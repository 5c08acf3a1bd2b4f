----------------------------- MODULE MCPatching -----------------------------
(***************************************************************************)
(* Values for the constants of Patching, shared by its TLC runs.           *)
(***************************************************************************)
EXTENDS Patching

CONSTANTS
    app, util, case, blob,       \* files
    root, src, tests,            \* directories
    bug, fix, more,              \* texts
    pytest, unittest, make, rm,  \* commands
    loop, hand,                  \* calls
    mend, spread, smash          \* proposals

MCListing == <<app, util, case, blob>>
MCBriefer == <<app, case, util, blob>>
MCDirOf == [p \in ToSet(MCListing) |->
    CASE p = app -> src [] p \in {util, blob} -> root [] p = case -> tests]

(* Only the name of app has to do with the issue.                          *)
MCTraits == [p \in ToSet(MCListing) |->
    [keywords |-> IF p = app THEN 1 ELSE 0, symbols |-> 0, primary |-> p = app,
     source |-> p = app, test_wanted |-> FALSE, control |-> FALSE]]

MCBaseFiles == [p \in ToSet(MCListing) |->
    IF p # case THEN <<bug>> ELSE Absent]

(* A model's plan may name files that are not there, and commands that may *)
(* not run.                                                                *)
MCDrafts == {[files |-> <<case, app>>, tests |-> <<pytest, rm, unittest>>]}

Replace(p, from, to) ==
    [type |-> "replace_text", path |-> p, find |-> from, text |-> to, overwrite |-> FALSE]
Write(p, text) ==
    [type |-> "write_file", path |-> p, find |-> None, text |-> text, overwrite |-> FALSE]
Append1(p, text) ==
    [type |-> "append_text", path |-> p, find |-> None, text |-> text, overwrite |-> FALSE]

MCPatchesOf == [c \in {loop, hand} |->
    IF c = loop THEN {[id |-> mend, ops |-> <<Write(case, fix), Replace(app, bug, fix)>>]}
    ELSE {[id |-> spread, ops |-> <<Append1(util, more)>>],
          [id |-> smash, ops |-> <<Append1(blob, more)>>]}]

MCNeeds == [c \in {pytest, unittest, make, rm} |->
    CASE c = unittest -> {[path |-> app, text |-> fix]}
      [] c = pytest -> {[path |-> app, text |-> fix], [path |-> util, text |-> more]}
      [] OTHER -> {}]

MCKindsOf == [c \in {loop, hand} |-> IF c = loop THEN {"autofix"} ELSE {"patch", "verify"}]
=============================================================================
