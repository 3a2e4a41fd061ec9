---------------------------- MODULE MCProjectTool ----------------------------
(* ProjectTool with a toolchain that works and one that is not there, which menuconfig may  *)
(* set nevertheless, a prefix, a default file that is there and one that is not, and three  *)
(* working trees; two components have the same name.                                  *)
EXTENDS ProjectTool

MCEdited == {[path |-> "dir", prefix |-> "arm-"], [path |-> "none", prefix |-> None]}
MCDefaultFiles == [a |-> "y", b |-> Missing]
Tag(numbers) == <<<<"v", numbers>>>>
MCTrees ==
  {[tag |-> <<>>, n |-> 0, hash |-> "c1", dirty |-> FALSE],
   [tag |-> Tag(<<1, 2, 3>>), n |-> 4, hash |-> "c2", dirty |-> TRUE],
   [tag |-> Append(Tag(<<1, 2>>), <<"text", 0>>), n |-> 4, hash |-> "c2", dirty |-> FALSE]}
MCComponents ==
  <<[dir |-> "sdk", name |-> "utils"], [dir |-> "sdk", name |-> "asr"],
    [dir |-> "project", name |-> "main"], [dir |-> "project", name |-> "asr"]>>
MCPriorities ==
  {[exists |-> FALSE, names |-> <<>>],
   [exists |-> TRUE, names |-> <<"main", "asr", "main">>]}
=============================================================================
