---------------------------- MODULE KconfigParse ----------------------------
(* The constructor of Kconfig (kconfiglib.py): the Kconfig files are read line   *)
(* by line, through the files they source, into a tree of menu nodes; the tree    *)
(* is finalized, and the dependencies are searched for loops (KconfigTree).        *)
(*                                                                         *)
(* A line has a text, or it is given as what its text says (see KconfigLine): a      *)
(* record of its keyword t and its operands. A line joined from several has their     *)
(* number in phys, a 'source' the files that each name stands for in glob, a choice   *)
(* without a name an item all the same. The lines of a help text are lines too: what   *)
(* makes them text is where they are and how far they are indented.               *)
EXTENDS KconfigLine

CONSTANTS
  FileSystems,   \* the sets of Kconfig files to read: functions from names to lines
  TopFile,       \* the name the constructor is given
  SymNames       \* the symbols the files mention

VARIABLES
  fs,            \* the files of this behaviour; never changes
  nodes, defs,   \* the menu nodes by number; what is known of the symbols and choices
  defined_syms,  \* in the order of their definitions, with repetitions
  stack,         \* the calls of _parse_block()
  props,         \* the node that _parse_properties() is at, or Nil
  pos,           \* _filename, _linenr, lines read, _include_path and _filestack
  line,          \* _tokens: the line read and not yet taken (or to take again), or NoLine
  variables,     \* the preprocessor variables
  warnings,      \* of the sanity checks: pairs of a kind and an item
  status         \* "parse", "finalize", "check", "loops", "done" or the error raised

tree == <<nodes, defs, defined_syms>>
parsing == <<stack, props, pos, line, variables>>
vars == <<fs, tree, parsing, warnings, status>>

\* The evaluator, on what has been read.
E == INSTANCE KconfigEval WITH Defs <- defs, MODULES <- "MODULES", NoItem <- NoChoice

NoLine == [t |-> "none"]

\* A call of _parse_block(): the token that ends it, the parent of its nodes, the
\* last of them, and the node whose contents it reads or the files still to source.
Frame(end, parent, prev, rest) == [end |-> end, parent |-> parent, prev |-> prev, rest |-> rest]

Init ==
  /\ fs \in FileSystems
  /\ nodes = <<[NewNode("menu", "top", Nil, TopFile, 1) EXCEPT !.prompt = <<Y>>]>>
  /\ defs = [i \in SymNames \cup ChoiceNames |-> IF i \in SymNames THEN NewSym ELSE NewChoice]
  /\ defined_syms = <<>>
  /\ stack = <<Frame("eof", Top, Top, <<>>)>>
  /\ props = Nil
  /\ pos = [file |-> TopFile, line |-> 0, read |-> 0, path |-> <<>>, files |-> <<>>]
  /\ line = NoLine
  /\ variables = <<>>
  /\ warnings = {}
  /\ status = "parse"

---------------------------------------------------------------------------
(* Lines.                                                                    *)

Lines == fs[pos.file]
Phys(l) == IF "phys" \in DOMAIN l THEN l.phys ELSE 1
AtEof == line = NoLine /\ pos.read = Len(Lines)

\* What the preprocessor knows at a line number.
Context(linenr) == [vars |-> variables, file |-> pos.file, line |-> linenr, args |-> <<>>, open |-> <<>>]
Read(l, linenr) == IF "text" \in DOMAIN l THEN LineOf(l.text, Context(linenr)) @@ l ELSE l
IsBlank(l) == IF "text" \in DOMAIN l THEN Strip(l.text) = <<>> ELSE l.t = "blank"

\* KconfigError, or an AttributeError: the constructor gives up.
Raise(what) ==
  /\ status' = what
  /\ UNCHANGED <<fs, tree, parsing, warnings>>

\* A line is read if none is at hand (_reuse_tokens).
_next_line ==
  /\ status = "parse" /\ line = NoLine /\ ~AtEof
  /\ LET next == Lines[pos.read + 1]
         linenr == pos.line + Phys(next)
     IN line' = Read(next, linenr) /\ pos' = [pos EXCEPT !.line = linenr, !.read = @ + 1]
  /\ UNCHANGED <<fs, warnings, tree, stack, props, variables, status>>

\* The line is of one of the kinds, and is taken, in a block or in properties.
Taken == line' = NoLine /\ UNCHANGED pos
BlockLine(kinds) == status = "parse" /\ props = Nil /\ line.t \in kinds
PropLine(kinds) == status = "parse" /\ props # Nil /\ line.t \in kinds

\* A line that cannot be read.
BadText == (BlockLine({"error"}) \/ PropLine({"error"})) /\ Raise(line.what)

\* name = value, name := value and name += value, wherever they stand. A new variable
\* is there, without a value, while its value is expanded.
_parse_assignment ==
  LET seen == line.var \in DOMAIN variables
      op == IF line.op = "+=" /\ ~seen THEN "=" ELSE line.op
      old == variables[line.var]
      now == op = ":=" \/ (op = "+=" /\ ~old.rec)
      registered == IF seen THEN Context(pos.line)
                    ELSE [Context(pos.line) EXCEPT !.vars = (line.var :> [rec |-> FALSE]) @@ @]
      val == IF now THEN _expand_whole(line.val, 1, registered) ELSE At(line.val, 1)
      var == [rec |-> IF op = "+=" THEN old.rec ELSE op = "=",
              value |-> IF op = "+=" THEN old.value \o <<" ">> \o val.s ELSE val.s]
  IN /\ BlockLine({"assign"}) \/ PropLine({"assign"})
     /\ IF val.err # "" THEN Raise(val.err)
        ELSE /\ Taken
             /\ variables' = (line.var :> var) @@ variables
             /\ UNCHANGED <<fs, warnings, tree, stack, props, status>>

---------------------------------------------------------------------------
(* Files.                                                                    *)

\* A file that is being read cannot be sourced again.
Recursive(name, path) == \E k \in DOMAIN path : path[k][1] = name

\* The position at the beginning of a file entered from position p, which is kept
\* with the line of the 'source'.
Entered(name, p) ==
  [file |-> name, line |-> 0, read |-> 0, path |-> Append(p.path, <<p.file, p.line>>),
   files |-> Append(p.files, <<p.path, p.read>>)]

_enter_file(name, p) ==
  IF Recursive(name, Entered(name, p).path) THEN status' = "recursive source" /\ UNCHANGED pos
  ELSE pos' = Entered(name, p) /\ UNCHANGED status

_leave_file_KeepStack ==
  [file |-> Last(pos.path)[1], line |-> Last(pos.path)[2], read |-> Last(pos.files)[2],
   path |-> Last(pos.files)[1], files |-> pos.files]
_leave_file_NextLine ==
  [file |-> Last(pos.path)[1], line |-> Last(pos.path)[2] + 1, read |-> Last(pos.files)[2],
   path |-> Last(pos.files)[1], files |-> Front(pos.files)]
\* The position in the file that sourced this one.
_leave_file ==
  LET place == Last(pos.path)
      file == Last(pos.files)
  IN [file |-> place[1], line |-> place[2], read |-> file[2], path |-> file[1],
      files |-> Front(pos.files)]

\* The files that a 'source' names, in their sorted order.
Sourced == IF line.pattern \in DOMAIN line.glob THEN line.glob[line.pattern] ELSE <<>>

\* A 'source' that finds nothing and may not, one that may, and the rest.
Sources == BlockLine({"source"})
SourceFails == Sources /\ Sourced = <<>> /\ line.obl /\ Raise("file not found")

SourceNothing ==
  /\ Sources /\ Sourced = <<>> /\ ~line.obl
  /\ Taken
  /\ UNCHANGED <<fs, warnings, tree, stack, props, variables, status>>

Source ==
  /\ Sources /\ Sourced # <<>>
  /\ _enter_file(Head(Sourced), pos)
  /\ stack' = Append(stack, [Last(stack) EXCEPT !.end = "eof", !.rest = Tail(Sourced)])
  /\ line' = NoLine
  /\ UNCHANGED <<fs, warnings, tree, props, variables>>

---------------------------------------------------------------------------
(* Blocks.                                                                   *)

Prev == Last(stack).prev
NewId == Len(nodes) + 1
PropertyLines == {"type", "def", "prompt", "depends", "default", "range", "select", "imply",
                  "visible", "optional", "option"}
EndOf == [menu |-> "endmenu", choice |-> "endchoice"]

WithPrev(s, id) == [s EXCEPT ![Len(s)].prev = id]
AddNode(kind, item, dep, prompt) ==
  nodes' = Append(nodes, [NewNode(kind, item, Last(stack).parent, pos.file, pos.line)
                            EXCEPT !.dep = dep, !.prompt = prompt])

\* config, menuconfig, choice, menu and comment: their properties are read next.
Open ==
  /\ BlockLine(SymLines \cup {"choice", "menu", "comment"})
  /\ CASE line.t \in SymLines -> AddNode("sym", line.item, Y, <<>>)
       [] line.t = "choice" -> AddNode("choice", line.item, Y, <<>>)
       [] OTHER -> AddNode(line.t, line.t, Y, <<Y>>)
  /\ defined_syms' = IF line.t \in SymLines THEN Append(defined_syms, line.item) ELSE defined_syms
  /\ props' = NewId
  /\ Taken
  /\ UNCHANGED <<fs, warnings, defs, stack, variables, status>>

OpenIf ==
  /\ BlockLine({"if"})
  /\ AddNode("if", "if", Cond(line.e), <<>>)
  /\ stack' = Append(stack, Frame("endif", NewId, NewId, <<>>))
  /\ Taken
  /\ UNCHANGED <<fs, warnings, defs, defined_syms, props, variables, status>>

\* The end of an if, menu or choice: what was read after its node becomes its list,
\* and the node follows the last one of the enclosing block.
Close ==
  LET id == Last(stack).parent
      outer == Front(stack)
      ended == [nodes EXCEPT ![Prev].next = Nil]
      tilted == [ended EXCEPT ![id].list = ended[id].next, ![id].next = Nil]
  IN /\ BlockLine({Last(stack).end})
     /\ nodes' = [tilted EXCEPT ![Last(outer).prev].next = id]
     /\ stack' = WithPrev(outer, id)
     /\ Taken
     /\ UNCHANGED <<fs, warnings, defs, defined_syms, props, variables, status>>

Blank ==
  /\ BlockLine({"blank", "mainmenu"}) \/ PropLine({"blank"})
  /\ Taken
  /\ UNCHANGED <<fs, warnings, tree, stack, props, variables, status>>

\* A line that ends no open block, or that no block can hold.
BadLine ==
  \/ BlockLine(EndLines \ {Last(stack).end}) /\ Raise("unopened end")
  \/ BlockLine({"text", "help"} \cup PropertyLines) /\ Raise("parse error")

\* The end of a file: of the block it should not end, of the first file, or of one
\* that was sourced, with the next file of the same 'source' or the line after it.
AtFileEnd == status = "parse" /\ props = Nil /\ AtEof

MissingEnd == AtFileEnd /\ Last(stack).end # "eof" /\ Raise("missing end")

EndOfTop ==
  /\ AtFileEnd /\ Len(stack) = 1
  /\ nodes' = [nodes EXCEPT ![Top].list = nodes[Top].next, ![Top].next = Nil]
  /\ status' = "finalize"
  /\ UNCHANGED <<fs, warnings, defs, defined_syms, stack, props, pos, line, variables>>

EndOfSourced ==
  LET frame == Last(stack)
      outer == WithPrev(Front(stack), frame.prev)
  IN /\ AtFileEnd /\ frame.end = "eof" /\ Len(stack) > 1
     /\ nodes' = [nodes EXCEPT ![frame.prev].next = Nil]
     /\ \/ frame.rest = <<>> /\ stack' = outer /\ pos' = _leave_file /\ UNCHANGED status
        \/ /\ frame.rest # <<>>
           /\ stack' = Append(outer, [frame EXCEPT !.rest = Tail(@)])
           /\ _enter_file(Head(frame.rest), _leave_file)
     /\ UNCHANGED <<fs, warnings, defs, defined_syms, props, line, variables>>

_parse_block ==
  \/ Open \/ OpenIf \/ Close \/ Blank \/ BadLine \/ SourceFails \/ SourceNothing \/ Source
  \/ BadText \/ _parse_assignment \/ MissingEnd \/ EndOfTop \/ EndOfSourced

---------------------------------------------------------------------------
(* Properties.                                                               *)

\* What the line adds to the node.
_parse_property(node, l) ==
  CASE l.t = "type" /\ l.prompt # <<>> -> [node EXCEPT !.prompt = <<Cond(l.prompt[1])>>]
    [] l.t = "prompt" -> [node EXCEPT !.prompt = <<Cond(l.c)>>]
    [] l.t = "depends" -> [node EXCEPT !.dep = _make_and(@, Cond(l.e))]
    [] l.t \in {"default", "def"} -> [node EXCEPT !.defaults = Append(@, <<l.e, Cond(l.c)>>)]
    [] l.t = "range" -> [node EXCEPT !.ranges = Append(@, <<l.low, l.high, Cond(l.c)>>)]
    [] l.t = "select" -> [node EXCEPT !.selects = Append(@, <<l.item, Cond(l.c)>>)]
    [] l.t = "imply" -> [node EXCEPT !.implies = Append(@, <<l.item, Cond(l.c)>>)]
    [] l.t = "visible" -> [node EXCEPT !.visibility = _make_and(@, Cond(l.e))]
    [] l.t = "option" /\ l.opt = "env" /\ l.var \in DOMAIN Env ->
         [node EXCEPT !.defaults = Append(@, <<_lookup_const_sym(Env[l.var]), Y>>)]
    [] l.t = "option" /\ l.opt = "defconfig_list" -> [node EXCEPT !.defconfig_list = TRUE]
    [] OTHER -> node

\* A type, and the options, belong to the symbol or choice and not to the node.
_set_type(item, l) ==
  CASE l.t \in {"type", "def"} -> [item EXCEPT !.type = l.type]
    [] l.t = "optional" -> [item EXCEPT !.optional = TRUE]
    [] l.t = "option" /\ l.opt = "env" -> [item EXCEPT !.env = TRUE, !.env_var = l.var]
    [] l.t = "option" /\ l.opt = "allnoconfig_y" -> [item EXCEPT !.allnoconfig_y = TRUE]
    [] OTHER -> item

\* What the code refuses, or has no attribute for: menus and comments have no item
\* with a type and no help, and only menus have a visibility.
Misplaced(node, l) ==
  \/ l.t = "visible" /\ node.kind # "menu"
  \/ l.t \in {"type", "def", "prompt", "help"} /\ node.kind \in {"menu", "comment"}
  \/ l.t \in {"select", "imply"} /\ node.kind # "sym"
  \/ l.t = "optional" /\ node.kind # "choice"
  \/ l.t = "option" /\ l.opt \in {"env", "allnoconfig_y"} /\ node.kind # "sym"

Property ==
  LET node == nodes[props]
  IN /\ PropLine(PropertyLines) /\ ~Misplaced(node, line)
     /\ nodes' = [nodes EXCEPT ![props] = _parse_property(@, line)]
     /\ defs' = IF node.item \in DOMAIN defs THEN [defs EXCEPT ![node.item] = _set_type(@, line)] ELSE defs
     /\ Taken
     /\ UNCHANGED <<fs, warnings, defined_syms, stack, props, variables, status>>

BadProperty == PropLine(PropertyLines \cup {"help"}) /\ Misplaced(nodes[props], line) /\ Raise("parse error")

Ind(l) == IF "ind" \in DOMAIN l THEN l.ind ELSE 0

\* A help text: the blank lines and the first line after it give the indent, and
\* the text ends before the first line with less. That line has been read by then:
\* it is the next one to be taken. At the end of the file the count is one high.
_parse_help ==
  LET from == pos.read + 1
      here == pos.line
      Less(k, ind) == SelectInSubSeq(Lines, k, Len(Lines), LAMBDA l : ~IsBlank(l) /\ Ind(l) < ind)
      first == SelectInSubSeq(Lines, from, Len(Lines), LAMBDA l : ~IsBlank(l))
      end == IF first = 0 \/ Ind(Lines[first]) = 0 THEN first ELSE Less(first, Ind(Lines[first]))
      last == IF end = 0 THEN Len(Lines) ELSE end
  IN /\ PropLine({"help"}) /\ ~Misplaced(nodes[props], line)
     /\ pos' = [pos EXCEPT !.read = last,
                           !.line = here + (last - from + 1)
                                    + (IF end = 0 THEN 1 ELSE Phys(Lines[end]) - 1)]
     /\ line' = IF end = 0 THEN NoLine ELSE Read(Lines[end], pos'.line)
     /\ UNCHANGED <<fs, warnings, tree, stack, props, variables, status>>

\* A line of another kind, or the end of the file, ends the properties: the node is
\* linked behind the one before it, or its contents are read. The line is kept.
EndProps ==
  LET node == nodes[props]
  IN /\ status = "parse" /\ props # Nil
     /\ AtEof \/ line # NoLine
     /\ ~PropLine(PropertyLines \cup {"blank", "assign", "help", "error"})
     /\ UNCHANGED <<pos, line>>
     /\ props' = Nil
     /\ \/ /\ node.kind \in {"menu", "choice"}
           /\ stack' = Append(stack, Frame(EndOf[node.kind], props, props, <<>>))
           /\ UNCHANGED nodes
        \/ /\ node.kind \in {"sym", "comment"}
           /\ nodes' = [nodes EXCEPT ![Prev].next = props]
           /\ stack' = WithPrev(stack, props)
     /\ UNCHANGED <<fs, warnings, defs, defined_syms, variables, status>>

_parse_properties == Property \/ BadProperty \/ _parse_help \/ EndProps

---------------------------------------------------------------------------
(* After parsing.                                                            *)

Defined == ToSet(defined_syms)
\* The first that has the option; it may be anything.
defconfig_list ==
  LET claims == {k \in DOMAIN nodes : nodes[k].defconfig_list}
  IN IF claims = {} THEN NoChoice ELSE nodes[Min(claims)].item
_ordered_unique(lst) == FoldLeft(LAMBDA seen, i : IF Contains(seen, i) THEN seen ELSE Append(seen, i), <<>>, lst)
unique_choices == {nodes[k].item : k \in {j \in DOMAIN nodes : nodes[j].kind = "choice"}}

Finalize ==
  LET done == _finalize_node([n |-> nodes, d |-> defs], Top, Y)
  IN /\ status = "finalize"
     /\ nodes' = done.n /\ defs' = done.d
     /\ status' = "check"
     /\ UNCHANGED <<fs, defined_syms, parsing, warnings>>

\* The checks only look at types and references.
Single(e) == e[1] \in {"const", "item"}
IntLike == {"int", "hex"}
ValueTypes == IntLike \cup {"string"}
TriLike == {"bool", "tristate"}
num_ok(e, type) == e[1] = "const" \/ e[2] \notin Defined \/ defs[e[2]].type = type
Targets(list) == {list[k][1] : k \in DOMAIN list}

MalformedDefault ==
  \E i \in Defined \cup unique_choices : \E k \in DOMAIN defs[i].defaults :
    LET e == defs[i].defaults[k][1]
    IN IF defs[i].kind = "choice" THEN e[1] # "item" ELSE defs[i].type \in ValueTypes /\ ~Single(e)

_check_sym_sanity ==
  {<<"selects a value", i>> : i \in {j \in Defined : /\ defs[j].type \in TriLike
     /\ \E t \in Targets(defs[j].selects \o defs[j].implies) : defs[t].type \in ValueTypes}}
  \cup {<<"has selects", i>> : i \in {j \in Defined : /\ defs[j].type \in ValueTypes
     /\ defs[j].selects \o defs[j].implies # <<>>}}
  \cup {<<"no type", i>> : i \in {j \in Defined : defs[j].type = "unknown"}}
  \cup {<<"bad default", i>> : i \in {j \in Defined : /\ defs[j].type \in IntLike
     /\ \E p \in ToSet(defs[j].defaults) : ~num_ok(p[1], defs[j].type)}}
  \cup {<<"bad range", i>> : i \in {j \in Defined : \E p \in ToSet(defs[j].ranges) :
     defs[j].type \in IntLike => ~num_ok(p[1], defs[j].type) \/ ~num_ok(p[2], defs[j].type)}}

NodesOf(i) == {k \in DOMAIN nodes : nodes[k].item = i}
_check_choice_sanity ==
  {<<"bad type", ch>> : ch \in {c \in unique_choices : defs[c].type \notin TriLike}}
  \cup {<<"no prompt", ch>> : ch \in {c \in unique_choices : defs[c].prompts = <<>>}}
  \cup {<<"default not contained", ch>> : ch \in {c \in unique_choices :
     \E p \in ToSet(defs[c].defaults) : defs[p[1][2]].choice # c}}
  \cup {<<"no effect", i>> : i \in {s \in Defined : /\ defs[s].choice # NoChoice
     /\ \/ defs[s].defaults # <<>> \/ defs[s].rev_dep # No \/ defs[s].weak_rev_dep # No}}
  \cup {<<"prompt", i>> : i \in {s \in Defined : /\ defs[s].choice # NoChoice
     /\ \E k \in NodesOf(s) : (nodes[nodes[k].parent].item = defs[s].choice) = (nodes[k].prompt = <<>>)}}

\* What is used and defined nowhere, if the environment asks for it.
referenced(node) ==
  Targets(node.selects \o node.implies) \cup E!ItemsIn(node.prompt)
  \cup E!expr_items(node.dep) \cup E!expr_items(node.visibility)
  \cup E!ItemsInProps(node.defaults \o node.ranges)
  \cup UNION {E!expr_items(p[2]) : p \in ToSet(node.selects \o node.implies)}
_check_undef_syms ==
  LET undefined == (UNION {referenced(nodes[k]) : k \in DOMAIN nodes}) \ (Defined \cup unique_choices)
  IN IF "KCONFIG_WARN_UNDEF" \in DOMAIN Env THEN {<<"undefined", i>> : i \in undefined \ {"MODULES"}} ELSE {}

Check ==
  /\ status = "check"
  /\ IF MalformedDefault THEN status' = "malformed default" /\ UNCHANGED warnings
     ELSE /\ status' = "loops"
          /\ warnings' = _check_sym_sanity \cup _check_choice_sanity \cup _check_undef_syms
  /\ UNCHANGED <<fs, tree, parsing>>

\* Only what is defined depends on anything.
Deps ==
  LET items == Defined \cup unique_choices
      depends == [j \in items |-> E!DependsOn(j)]
  IN [i \in DOMAIN defs |-> {j \in items : i \in depends[j]}]

Loops ==
  /\ status = "loops"
  /\ status' = IF DepLoop(defs, Deps, _ordered_unique(defined_syms)).raised
               THEN "dependency loop" ELSE "done"
  /\ UNCHANGED <<fs, tree, parsing, warnings>>

\* The constructor has returned, or raised.
Over == status \notin {"parse", "finalize", "check", "loops"} /\ UNCHANGED vars

Next == _next_line \/ _parse_block \/ _parse_properties \/ Finalize \/ Check \/ Loops \/ Over

Spec == Init /\ [][Next]_vars

---------------------------------------------------------------------------
TypeOK ==
  /\ \A k \in DOMAIN nodes : {nodes[k].parent, nodes[k].list, nodes[k].next} \subseteq Nil..Len(nodes)
  /\ defined_syms \in Seq(SymNames)
  /\ \A i \in DOMAIN defs : defs[i].choice \in ChoiceNames \cup {NoChoice}
  /\ props \in Nil..Len(nodes)
  /\ pos.read \in 0..Len(Lines)
  /\ stack # <<>> /\ Len(pos.path) = Len(pos.files)

\* The line number that messages and menu nodes carry is that of the last physical
\* line read, through joined lines, help texts, a line that is taken again and files
\* left and entered (after a help text at the end of a file it is one too high, and
\* no longer used).
PhysUpTo(lines, k) == FoldLeft(LAMBDA n, l : n + Phys(l), 0, SubSeq(lines, 1, k))
LineNumbersRight ==
  /\ \/ pos.line = PhysUpTo(Lines, pos.read)
     \/ pos.read = Len(Lines) /\ pos.line = PhysUpTo(Lines, pos.read) + 1
  /\ \A k \in DOMAIN nodes \ {Top} :
       \E n \in DOMAIN fs[nodes[k].file] :
         LET l == fs[nodes[k].file][n]
             word == IF "text" \in DOMAIN l THEN Strip(l.text)[1] ELSE l.t
         IN /\ nodes[k].linenr = PhysUpTo(fs[nodes[k].file], n)
            /\ IF word \in SymLines THEN nodes[k].kind = "sym" ELSE nodes[k].kind = word
            /\ "item" \in DOMAIN l => l.item = nodes[k].item

\* When the tree is finished every node but the ifs is in it once, in the order in
\* which it was read, below the node that it names as its parent. (Implicit menus,
\* the removal of ifs and raised children relink the lists in place.)
RECURSIVE Preorder(_, _)
Preorder(id, parent) ==
  IF id = Nil THEN <<>>
  ELSE << <<id, parent>> >> \o Preorder(nodes[id].list, id) \o Preorder(nodes[id].next, parent)
InReadingOrder ==
  status = "done" =>
    LET kept == SelectSeq([k \in 1..(Len(nodes) - 1) |-> k + 1], LAMBDA k : nodes[k].kind # "if")
    IN Preorder(nodes[Top].list, Top) = [k \in DOMAIN kept |-> <<kept[k], nodes[kept[k]].parent>>]

\* The value of an expression for an assignment a of values to the items.
RECURSIVE Sem(_, _)
Sem(e, a) ==
  CASE e[1] = "const" -> e[2]
    [] e[1] = "item" -> a[e[2]]
    [] e[1] = "and" -> E!Min2(Sem(e[2], a), Sem(e[3], a))
    [] e[1] = "or" -> E!Max2(Sem(e[2], a), Sem(e[3], a))
    [] e[1] = "not" -> 2 - Sem(e[2], a)
    [] OTHER -> IF E!Compare(e[1], Sem(e[2], a), Sem(e[3], a)) THEN 2 ELSE 0

\* Macros again, from the inside: the last one to begin ends at the first parenthesis
\* after it. What it gives way to is one piece, which nothing can take apart.
Piece(a) == <<"atom", a>>
Pieces(text) == [k \in DOMAIN text |-> Piece(text[k])]
TextOfPieces(p) == FlattenSeq([k \in DOMAIN p |-> IF p[k][1] = "atom" THEN <<p[k][2]>> ELSE p[k][2]])
RECURSIVE Settled(_, _)
Settled(p, c) ==
  LET k == SelectLastInSeq(p, LAMBDA q : q = Piece("$("))
      end == CHOOSE e \in (k + 1)..Len(p) : p[e] = Piece(")") /\ \A j \in (k + 1)..(e - 1) : p[j] # Piece(")")
      commas == {j \in (k + 1)..(end - 1) : p[j] = Piece(",")}
      ends == SetToSortSeq(commas \cup {end}, <)
      args == [n \in DOMAIN ends |->
                 TextOfPieces(SubSeq(p, (IF n = 1 THEN k ELSE ends[n - 1]) + 1, ends[n] - 1))]
      fn == NameOf(args[1])
      value == IF ArgOf(args, c.args) # <<>> THEN ArgOf(args, c.args)[1]
               ELSE IF fn \in DOMAIN c.vars THEN Settled(Pieces(c.vars[fn].value), [c EXCEPT !.args = args])
               ELSE _fn_val(args, c).s
  IN IF k = 0 THEN TextOfPieces(p)
     ELSE Settled(SubSeq(p, 1, k - 1) \o << <<"value", value>> >> \o SubSeq(p, end + 1, Len(p)), c)

\* Expressions again, from the outside: the operator that binds least, outside of all
\* parentheses, is applied last.
Depth(toks, k) == Cardinality({j \in 1..k : toks[j] = Op("(")}) - Cardinality({j \in 1..k : toks[j] = Op(")")})
RECURSIVE TokensSem(_, _)
TokensSem(toks, a) ==
  LET n == Len(toks)
      outer(op) == {k \in 1..n : toks[k] = Op(op) /\ Depth(toks, k) = 0}
      sides(k) == {TokensSem(SubSeq(toks, 1, k - 1), a), TokensSem(SubSeq(toks, k + 1, n), a)}
  IN CASE outer("||") # {} -> Max(sides(Max(outer("||"))))
       [] outer("||") = {} /\ outer("&&") # {} -> Min(sides(Min(outer("&&"))))
       [] OTHER -> IF toks[1] = Op("!") THEN 2 - TokensSem(Tail(toks), a)
                   ELSE IF toks[1] = Op("(") THEN TokensSem(SubSeq(toks, 2, n - 1), a)
                   ELSE IF n = 1 THEN Sem(toks[1][2], a)
                   ELSE IF E!Compare(toks[2][2], Sem(toks[1][2], a), Sem(toks[3][2], a)) THEN 2 ELSE 0

AllAssignments(exprs) == [UNION {E!expr_items(e) : e \in exprs} -> 0..2]

\* The text at hand is read as what it means: its macros as above, and the expression
\* that it may state too.
TextRead ==
  line # NoLine /\ "text" \in DOMAIN line =>
    LET c == Context(pos.line)
        expanded == _expand_whole(line.text, 1, c)
    IN /\ expanded.err = "" => expanded.s = Settled(Pieces(line.text), c)
       /\ line.t \in {"if", "depends", "visible"} =>
            LET toks == _tokenize(line.text, c).toks
                stated == SubSeq(toks, IF line.t = "if" THEN 2 ELSE 3, Len(toks))
            IN \A a \in AllAssignments({line.e}) : Sem(line.e, a) = TokensSem(stated, a)

\* A node that is printed and read again is the same: its conditions are stripped of
\* the dependency, which they get back. (A choice that something depends on cannot be
\* written, a macro in a string is not escaped, and the value of an environment
\* variable becomes a default.)
SameMeaning(e1, e2) == e1 = e2 \/ \A a \in AllAssignments({e1, e2}) : Sem(e1, a) = Sem(e2, a)
SameProps(ps, qs) ==
  Len(ps) = Len(qs) /\ \A k \in DOMAIN ps :
    /\ Len(ps[k]) = 3 => ps[k][2] = qs[k][2]
    /\ SameMeaning(Last(ps[k]), Last(qs[k]))
    /\ ps[k][1] = qs[k][1] \/ SameMeaning(ps[k][1], qs[k][1])
Again(node, read) ==
  LET as_read == FoldLeft(_parse_property, NewNode(node.kind, node.item, Top, node.file, 0), read)
      sc == FoldLeft(_set_type, IF node.kind = "sym" THEN NewSym ELSE NewChoice, read)
  IN [node |-> Inherit([as_read EXCEPT !.prompt = IF node.kind = "menu" THEN node.prompt ELSE @], Y, Y), sc |-> sc]
SameNode(node, sc, again) ==
  /\ SameMeaning(node.dep, again.node.dep) /\ SameMeaning(node.visibility, again.node.visibility)
  /\ SameProps([n \in DOMAIN node.prompt |-> <<Y, node.prompt[n]>>],
               [n \in DOMAIN again.node.prompt |-> <<Y, again.node.prompt[n]>>])
  /\ SameProps(node.defaults, IF sc.kind = "sym" /\ sc.env THEN Tail(again.node.defaults) ELSE again.node.defaults)
  /\ SameProps(node.ranges, again.node.ranges)
  /\ SameProps(node.selects, again.node.selects) /\ SameProps(node.implies, again.node.implies)
  /\ node.kind # "menu" => sc.type = again.sc.type
  /\ node.kind = "sym" => /\ sc.allnoconfig_y = again.sc.allnoconfig_y /\ sc.env_var = again.sc.env_var
                          /\ sc.defconfig_list = again.node.defconfig_list
  /\ node.kind = "choice" => sc.optional = again.sc.optional
HasMacro(e) == e[1] = "const" /\ Len(e) = 3 /\ Contains(e[3], "$(")
Printable(node) ==
  /\ node.kind \in {"sym", "choice", "menu"}
  /\ ChoiceNames \cap E!expr_items(node.dep) = {}
  /\ ~\E p \in ToSet(node.defaults) : HasMacro(p[1])
PrintedReadsBack ==
  status = "done" => \A k \in DOMAIN nodes \ {Top} : Printable(nodes[k]) =>
    LET node == nodes[k]
        sc == (IF node.kind = "menu" THEN NewChoice ELSE defs[node.item])
              @@ [defconfig_list |-> node.item = defconfig_list]
        lines == Tail(custom_str(node, sc))
    IN SameNode(node, sc, Again(node, [n \in DOMAIN lines |-> LineOf(lines[n], Context(0))]))

\* Nothing is lost or misplaced on the way from the lines to the tree, and the text of
\* the lines means what it says.
ReadInOrder == TypeOK /\ LineNumbersRight /\ InReadingOrder /\ TextRead /\ PrintedReadsBack

\* What the statements of the files mean, for an assignment a of values: a node
\* depends on its own and on the enclosing conditions up to a choice, and shows its
\* prompt where all the enclosing menus are visible too.
RECURSIVE Enclosed(_, _), Shown(_, _)
Enclosed(id, a) ==
  LET up == nodes[id].parent
  IN IF up = Nil THEN 2
     ELSE E!Min2(Sem(nodes[id].dep, a),
                 IF nodes[up].kind = "choice" THEN a[nodes[up].item] ELSE Enclosed(up, a))
Shown(id, a) == IF id = Nil THEN 2 ELSE E!Min2(Sem(nodes[id].visibility, a), Shown(nodes[id].parent, a))

Used == Defined \cup unique_choices \cup UNION {referenced(nodes[k]) : k \in DOMAIN nodes}
Assignments == [Used -> 0..2]
MaxSem(values) == IF values = {} THEN 0 ELSE Max(values)

\* The direct dependency and the visibility of every symbol and choice are, for all
\* values, those of the statements: dependencies that go down the tree while implicit
\* menus are made of it are neither lost nor given to a node they do not enclose.
DepsMeanEnclosure ==
  [][status = "finalize" =>
       \A a \in Assignments : \A i \in Defined \cup unique_choices :
         LET prompts == defs'[i].prompts
         IN /\ Sem(defs'[i].direct_dep, a) = MaxSem({Enclosed(k, a) : k \in NodesOf(i)})
            /\ MaxSem({Sem(prompts[k], a) : k \in DOMAIN prompts})
               = MaxSem({Min({Sem(nodes[k].prompt[1], a), Enclosed(k, a), Shown(nodes[k].parent, a)})
                          : k \in {n \in NodesOf(i) : nodes[n].prompt # <<>>}})]_vars

\* Whether something of a set of items is its own dependency, a choice and its
\* symbols being one.
Unit(i) == IF i \in SymNames /\ defs[i].choice # NoChoice THEN defs[i].choice ELSE i
LoopOver(from) ==
  LET deps == Deps
      edge == {<<Unit(p[1]), Unit(p[2])>> : p \in {q \in from \X DOMAIN defs :
                 q[2] \in deps[q[1]] /\ ~(q[1] \in ChoiceNames /\ Unit(q[2]) = q[1])}}
      units == {e[1] : e \in edge}
      reach == FoldSet(LAMBDA u, r : r \cup {<<p[1], q[2]>> : p \in {x \in r : x[2] = u}, q \in {x \in r : x[1] = u}},
                       edge, units)
  IN \E u \in units : <<u, u>> \in reach

\* A select that no check has warned of takes effect: whatever the user values, its
\* target is at least as high as the selecting symbol and the condition.
UserValues == [Defined -> {E!None, 0, 2}]
With(u) == [user |-> [i \in DOMAIN defs |-> IF i \in Defined THEN u[i]
                                            ELSE [mode |-> E!None, sel |-> NoChoice]],
            was |-> <<>>, c |-> <<>>]
SelectsWork ==
  status = "done" /\ warnings = {} /\ ~LoopOver(Defined \cup unique_choices) =>
    \A k \in DOMAIN nodes : \A p \in ToSet(nodes[k].selects) : \A u \in UserValues :
      p[1] \in Defined =>
        E!Tri(p[1], With(u)) >= E!Min2(E!Tri(nodes[k].item, With(u)), E!expr_value(p[2], With(u)).v)

\* A dependency loop is reported exactly when there is one, but for loops that leave
\* a choice through what it contains besides its symbols.
LoopsRaised ==
  /\ status = "dependency loop" => LoopOver(Defined)
  /\ status = "done" => ~LoopOver(Defined)

\* The same for all loops: the constructor checks for dependency loops.
EveryLoopRaised == status = "done" => ~LoopOver(Defined \cup unique_choices)
=============================================================================
