---------------------------- MODULE MCToolBatch ----------------------------
(* ToolBatch on small batches: two files, a few kinds of tool call.        *)
EXTENDS ToolBatchRefinement

\* Raw paths: two spellings of file a, files b and c, and a blank path; no
\* two keys name one file (no links, a case-sensitive file system).
MCPaths == {"a", "./a", "b", "c", " "}
MCKeys == {"/ws/a", "/ws/b", "/ws/c"}
MCKeyOf == [p \in MCPaths |->
              CASE p \in {"a", "./a"} -> "/ws/a"
                [] p = "b" -> "/ws/b"
                [] p = "c" -> "/ws/c"
                [] p = " " -> "none"]
MCFileOf == [p \in MCPaths |-> MCKeyOf[p]]

Base == [found |-> TRUE, dynamic |-> "absent", declared |-> "none",
         readOnly |-> FALSE, whitelisted |-> FALSE, parses |-> TRUE,
         resources |-> "absent", fileScoped |-> FALSE, paths |-> {},
         timed |-> FALSE]

Read == [Base EXCEPT !.whitelisted = TRUE]
Write(p) == [Base EXCEPT !.fileScoped = TRUE, !.paths = {p}]
Rename == [Base EXCEPT !.fileScoped = TRUE, !.paths = {"./a", "b"}]
Timed(c) == [c EXCEPT !.timed = TRUE]
Shell == [Base EXCEPT !.dynamic = "no"]
ShellRead == [Shell EXCEPT !.dynamic = "yes"]

\* One of each way to be scheduled.
FewProfiles == {Read, Timed(Write("a")), Rename}
\* Every branch of judgeParallelSafe and getWritePlan.
KindProfiles ==
    {ShellRead, Shell, Write("./a"), Write("b"), Write(" "),
     [Base EXCEPT !.dynamic = "throws", !.whitelisted = TRUE],
     [Base EXCEPT !.declared = "unsafe", !.whitelisted = TRUE],
     [Base EXCEPT !.declared = "safe", !.fileScoped = TRUE, !.paths = {"a"}],
     [Base EXCEPT !.readOnly = TRUE],
     [Base EXCEPT !.found = FALSE, !.declared = "safe", !.fileScoped = TRUE,
                  !.paths = {"a"}],
     [Write("a") EXCEPT !.parses = FALSE],
     [Write("b") EXCEPT !.resources = "throws"],
     [Base EXCEPT !.resources = "reports", !.paths = {"a", " "}]}
AllProfiles == FewProfiles \cup KindProfiles \cup {Write("a")}

\* Three calls of the few, or one of any kind between two of them.
Batches ==
    [Call -> FewProfiles]
    \cup {b \in [Call -> AllProfiles] :
            /\ b[1] \in {Write("a"), Write("b")}
            /\ b[2] \in KindProfiles /\ b[3] = Rename}

MCInit == Init /\ calls \in Batches
MCSpec == MCInit /\ [][Next]_vars /\ Fairness
=============================================================================
