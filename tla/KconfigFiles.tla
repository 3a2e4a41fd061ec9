---------------------------- MODULE KconfigFiles ----------------------------
(* The command line tools of Kconfiglib at work on one directory (ConfigStore): each        *)
(* starts a fresh instance, loads a configuration, gives values, and writes its files.      *)
EXTENDS ConfigStore, TLC

CONSTANTS
  MODULES, NoItem,
  DefconfigList, \* the defaults of the option defconfig_list symbol
  Allconfigs,    \* the values KCONFIG_ALLCONFIG may have
  SetArgs,       \* the arguments setconfig is given
  Answers        \* what the user answers to oldconfig, of each item

VARIABLE work    \* the instance of the tool, and how far oldconfig has got
vars == <<storeVars, work>>

K == INSTANCE KconfigConfig WITH
       Defs <- Trees[tree].defs, Order <- Trees[tree].order, NodeOrder <- Trees[tree].nodes,
       Known <- Trees[tree].known, AllnoY <- Trees[tree].allnoY

NoWork == [s |-> <<>>, at |-> 0, changed |-> FALSE]
Work(s) == [NoWork EXCEPT !.s = s]

LoadedFrom(fs) == K!load_config(fs, K!Fresh_k).s
Loaded == LoadedFrom(files)

Init ==
  /\ tree = 1
  /\ \/ InitFresh
     \/ \E config, later \in HandWritten :
          config # later /\ InitBuilt(K!Values(LoadedFrom(Fresh(config))), later)
  /\ InitRest
  /\ work = NoWork

---------------------------------------------------------------------------
(* The tools: the values each comes to, and what it writes.                        *)

StartAndWrite(tool, s) == SaveAs(tool, ".config", K!Values(s)) /\ work' = Work(s)

olddefconfig == StartAndWrite("olddefconfig", Loaded)

defconfig ==
  \E f \in DOMAIN Fragments :
    /\ Fragments[f] # Absent
    /\ StartAndWrite("defconfig", K!_load_config(files[f], TRUE, K!Fresh_k).s)

MinOf(s) == SaveMin(K!Values(s), K!MinSyms(s)) /\ work' = Work(s)
savedefconfig == MinOf(Loaded)

\* Without KCONFIG_ALLCONFIG, or merged with the file it names; a file that cannot
\* be opened ends the tool before it writes.
Allconfig(tool, own, s) ==
  \/ StartAndWrite(tool, s)
  \/ \E a \in Allconfigs :
       LET f == K!AllconfigFile(a, own, files)
           merged == K!_load_config(files[f], FALSE, [K!Fresh_k EXCEPT !.s = s]).s
       IN ~Running /\ f # NoItem /\ StartAndWrite(tool, merged)

alldefconfig == Allconfig("alldefconfig", "alldef.config", K!Init_s)
allnoconfig == Allconfig("allnoconfig", "allno.config", K!allnoconfig(K!Init_s))
allyesconfig == Allconfig("allyesconfig", "allyes.config", K!allyesconfig(K!Init_s))
allmodconfig == Allconfig("allmodconfig", "allmod.config", K!allmodconfig(K!Init_s))
allnoconfig_walk == StartAndWrite("allnoconfig_walk", K!allnoconfig_walk(K!Init_s))

\* --no-check-value and --no-check-exists leave out a check.
setconfig ==
  \E args \in SetArgs, checkExists, checkValue \in BOOLEAN :
    LET set == FoldLeft(LAMBDA acc, arg : K!SetArg(acc, arg, checkExists, checkValue),
                        [s |-> Loaded, ok |-> TRUE], args)
    IN ~Running /\ set.ok /\ StartAndWrite("setconfig", set.s)

\* The fragments one upon the other, on the defaults.
Merged(s) == SaveAs("merge_config", "merged", K!Values(s)) /\ work' = Work(s)
merge_config ==
  \E f, g \in DOMAIN Fragments :
    LET one == K!_load_config(files[f], FALSE, K!Fresh_k)
    IN /\ ~Running /\ f # g /\ files[f] # Absent /\ files[g] # Absent
       /\ Merged(K!_load_config(files[g], FALSE, one).s)

genconfig == Sync(K!Values(Loaded)) /\ work' = Work(Loaded)

\* oldconfig.py goes through the nodes, and again after a pass with a change.
oldconfig == Ask /\ work' = [Work(Loaded) EXCEPT !.at = 1]

AskNext(s, changed, at) ==
  work' = [s |-> s, changed |-> changed, at |-> at] /\ UNCHANGED storeVars
WriteAll(s) == work' = Work(s) /\ Asked(K!Values(s))
Onwards_NoAgain(s, changed) == WriteAll(s)
Onwards_TooFar(s, changed) ==
  IF changed THEN AskNext(s, FALSE, 1) ELSE AskNext(s, FALSE, work.at + 1)
Onwards(s, changed) ==
  IF work.at < Len(Trees[tree].nodes) THEN AskNext(s, changed, work.at + 1)
  ELSE IF changed THEN AskNext(s, FALSE, 1)
  ELSE WriteAll(s)

OldconfigNode ==
  /\ work.at # 0
  /\ LET i == Trees[tree].nodes[work.at] IN
       IF ~K!Asks(i, work.s) THEN Onwards(work.s, work.changed)
       ELSE IF i \in K!ChoiceItems
       THEN \E answer \in {NoItem} \cup K!Options(i, work.s) :
              LET a == K!AnswerChoice(i, answer, work.s)
              IN Onwards(a.s, work.changed \/ a.changed)
       ELSE \E answer \in {K!Blank} \cup Answers[i] :
              LET a == K!AnswerSymbol(i, answer, work.s)
                  given == IF answer = K!Blank THEN K!Fresh(<<i, "val">>, work.s)[1] ELSE answer
              IN K!Accepts(i, given) /\ Onwards(a.s, work.changed \/ a.changed)

Tools == \/ olddefconfig \/ defconfig \/ savedefconfig \/ alldefconfig \/ allnoconfig
         \/ allyesconfig \/ allmodconfig \/ allnoconfig_walk \/ setconfig \/ merge_config
         \/ genconfig \/ oldconfig

---------------------------------------------------------------------------
(* The rest is the directory's.                                              *)

Write == Call /\ UNCHANGED work
End == Exit /\ work.at = 0 /\ work' = NoWork
Killed == Crash /\ work' = NoWork
Others == (EditConfig \/ EditKconfig \/ Build) /\ UNCHANGED work

Next == Tools \/ OldconfigNode \/ Write \/ End \/ Killed \/ Others
Spec == Init /\ [][Next]_vars

TypeOK ==
  /\ tree \in DOMAIN Trees
  /\ Idle.todo = <<>> /\ work.at \in 0..Len(Trees[tree].nodes) /\ work.changed \in BOOLEAN
  /\ DOMAIN files = Outputs \cup DOMAIN Fragments
  /\ touched \subseteq Names /\ torn \subseteq Outputs
  /\ synced \in BOOLEAN /\ lost \in BOOLEAN /\ unsaved \in BOOLEAN /\ blind \in BOOLEAN

---------------------------------------------------------------------------
(* What the files promise.                                                  *)

\* The first call of a write, and what the last one fills the file with.
About(f) == Running /\ proc.todo # <<>> /\ Head(proc.todo) = <<IF f = "min" THEN "open" ELSE "rename", f>>
Contents == Last(proc.todo)[3]
StrValues(s) == LET v == K!Values(s) IN [i \in DOMAIN v |-> v[i][1]]
Given == [i \in DOMAIN proc.vals |-> proc.vals[i][1]]
Reloaded(contents) == K!_load_config(contents, TRUE, K!Fresh_k).s

\* A default or an imply may set a symbol above its visibility, no user can.
AboveVisible(s) ==
  \E i \in Range(Trees[tree].order) :
    /\ Trees[tree].defs[i].type \in K!BoolTri
    /\ K!Tri(i, s) > K!Max2(K!Vis(i, s), K!ExprValue(Trees[tree].defs[i].rev_dep, s))

\* RoundTrip: a .config that a tool writes gives, loaded again, the same values: no
\* value depends on what only the process knew. (load_config, write_config)
RoundTrip ==
  About(".config") =>
    \/ AboveVisible(work.s)
    \/ StrValues(Reloaded(Contents)) = Given

\* NothingNew: listnewconfig has nothing to list after any tool has written .config.
NothingNew ==
  About(".config") => K!ListNew(Reloaded(Contents)) = {}

\* MinComplete: from the minimal configuration the complete one can be derived by
\* loading it (the docstring of write_min_config).
MinComplete ==
  About("min") =>
    \/ AboveVisible(work.s)
    \/ StrValues(Reloaded(Contents)) = Given

\* MinCompleteButModes: it is so unless the default selection of a tristate choice in
\* y mode is a bool: the symbol is left out, and with it the mode.
MinCompleteButModes ==
  \/ MinComplete
  \/ \E i \in Range(Trees[tree].order) :
       K!SelectedByDefault(i, work.s)
       /\ Trees[tree].defs[Trees[tree].defs[i].choice].type = "tristate"

\* LoadReplaces: load_config() leaves nothing of what an instance held before: it ends
\* with the values a fresh instance ends with. The exception is a selection that
\* survives when the file gives the symbols of the choice no y but an m.
KeepsSelection(contents, s) ==
  \E k \in DOMAIN contents :
    LET i == contents[k][1]
        d == Trees[tree].defs[i]
    IN /\ i \in Range(Trees[tree].order) /\ contents[k][2] = 1
       /\ d.kind = "sym" /\ d.choice # NoItem /\ s.user[d.choice].sel # NoItem
LoadReplaces ==
  About(".config") => \A contents \in HandWritten :
    \/ KeepsSelection(contents, work.s)
    \/ StrValues(K!_load_config(contents, TRUE, [K!Fresh_k EXCEPT !.s = work.s]).s)
       = StrValues(Reloaded(contents))

\* NoNewSymbols: oldconfig ends only when there is no symbol or choice left that it
\* would ask for, although each answer may show or hide others.
NoNewSymbols ==
  proc.tool = "oldconfig" /\ work.at = 0 /\ proc.todo = <<>> =>
    \A i \in Range(Trees[tree].nodes) : ~K!Asks(i, work.s)

\* SameAsWalk: allnoconfig_walk.py, which lowers one value after the other, ends with
\* the configuration of allnoconfig.py.
SameAsWalk ==
  proc.tool = "allnoconfig_walk" /\ proc.todo = <<>> =>
    Given = StrValues(K!allnoconfig(K!Init_s))

\* A configuration written can be read back, and nothing in it is unknown.
ReadBack == RoundTrip /\ NothingNew /\ LoadReplaces

\* A tool that goes through the symbols one by one ends where it should.
ToolsEnd == TypeOK /\ NoNewSymbols /\ SameAsWalk
=============================================================================
