------------------------------- MODULE MCRelease -------------------------------
(* Constants of Release for model checking: main goes from 0.2 to 0.3, the *)
(* maintenance branch of 0.2 is cut from the base commit.                  *)
EXTENDS ValidationRunner

Tag(line, patch, pre) == [line |-> line, patch |-> patch, pre |-> pre]

v021 == Tag(2, 1, "")
v022 == Tag(2, 2, "")
v030rc == Tag(3, 0, "rc1")
v030 == Tag(3, 0, "")

(* base - m1 - m2 (main); base - r1 - r2 (release/0.2.x); base - x (a topic
   branch that nobody protects). *)
MCCommits == {"base", "m1", "m2", "r1", "r2", "x"}
MCAncestors ==
    [c \in MCCommits |->
        CASE c = "base" -> {"base"}
          [] c = "m1" -> {"base", "m1"}
          [] c = "m2" -> {"base", "m1", "m2"}
          [] c = "r1" -> {"base", "r1"}
          [] c = "r2" -> {"base", "r1", "r2"}
          [] c = "x" -> {"base", "x"}]

Lines == [main |-> 3, entries |-> {[line |-> 2, branch |-> 2, base |-> "base"]}]
OldLines == [main |-> 2, entries |-> {}]

Files(tag, lines) == [tag |-> tag, notes |-> TRUE, lines |-> lines]
MCTree ==
    [c \in MCCommits |->
        CASE c = "base" -> Files(Tag(2, 0, ""), OldLines)
          [] c = "m1" -> Files(v030rc, Lines)
          [] c = "m2" -> Files(v030, Lines)
          [] c = "r1" -> Files(v021, Lines)
          [] c = "r2" -> Files(v022, Lines)
          [] c = "x" -> Files(v022, Lines)]

MCMainHistory == <<"base", "m1", "m2">>
MCBranchHistory == [l \in {2} |-> <<"base", "r1", "r2">>]

MCPushable ==
    {<<v021, "r1">>, <<v022, "r2">>, <<v022, "x">>, <<v030rc, "m1">>, <<v030, "m2">>}
MCInvocations ==
    LET Plain == [tag |-> NoTag, commit |-> Nothing, version |-> NoTag,
                  allowDirty |-> TRUE, require |-> FALSE, dir |-> TRUE]
    IN  {Plain,
         \* the documented command line, on the tag of a release
         [Plain EXCEPT !.tag = v021, !.allowDirty = FALSE, !.require = TRUE],
         \* the files of another version than the checkout's
         [Plain EXCEPT !.commit = "m2", !.version = v021],
         \* files are required and there are none
         [Plain EXCEPT !.tag = v022, !.require = TRUE, !.dir = FALSE]}
MCSelections == {Kinds, {"wheel", "sdist", "ARTIFACTS.json"}, {"SHA256SUMS"}}
=============================================================================
