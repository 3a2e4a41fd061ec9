-------------------------- MODULE ProjectToolProofs --------------------------
(* What project.py builds is what it was told to build, for any number of calls, any        *)
(* toolchains, values, files of defaults and trees. The inductive invariant IInv says,      *)
(* beside the types, what a running call has got done (Running), which of the files agree   *)
(* when make takes them for up to date (UpToDate, Saved), that the toolchain is the one of  *)
(* .config.mk all along (WithToolchain), what the program and flash were given (Built,      *)
(* Flashed), and what a Makefile has the components in the order of (Ordered). That this    *)
(* order is right is a fact about sort_components.py alone, by induction along the list     *)
(* of the components.                                                         *)
EXTENDS ProjectTool, SequenceTheorems, FiniteSetTheorems, TLAPS

Running ==
  /\ objs # NoObjs \/ used # NoFlash => pc = "idle"
  /\ gui => pc \in {"write_config", "write_cmake", "write_header"}
  /\ pc \in {"write_config", "write_cmake", "write_header", "generate", "gui"} => mem \in Config
  /\ pc = "write_config" /\ ~gui => mem = IF mk = Absent THEN Merged ELSE mk
  /\ pc \in {"write_cmake", "write_header", "generate"} /\ ~gui => mk = mem
  /\ pc \in {"write_header", "generate"} => cmake = mem
  /\ pc = "generate" => header = mem
  /\ pc = "gui" => mk # Absent
  /\ pc \in {"make", "info", "compile"} => makefile # Absent
  /\ pc \in {"info", "compile"} => ~newer /\ cmake # Absent

\* A Makefile that is not older than global_config.cmake was made from it, and the header
\* was written with it.
UpToDate == ~newer /\ makefile # Absent /\ cmake # Absent => makefile = cmake /\ header = cmake

\* It says what global_config.mk said last, but while genconfig.py is at work.
Saved ==
  /\ mk # Absent => mk = saved
  /\ pc \notin {"gui", "write_config", "write_cmake"} /\ cmake # Absent /\ ~newer /\ ~unsaved =>
       saved = cmake

WithToolchain == pc \notin {"remove", "rmtree"} /\ mk # Absent /\ ~split /\ ~kept => mk.tc = Wanted

\* The version header is that of the tree.
Built ==
  /\ pc = "compile" => version_h = <<git_define(describe(tree))>>
  /\ objs # NoObjs => objs.version = <<git_define(describe(tree))>>
  /\ objs # NoObjs /\ ~unsaved => objs.conf = saved /\ objs.header = saved

Flashed ==
  /\ asked = IF flash_conf = NoFlash THEN NotAsked ELSE flash_conf
  /\ FlashAsAsked

\* A Makefile has the components as sort_components.py printed them.
Ordered ==
  makefile # Absent =>
    \E p \in Priorities : order = [list |-> component_dirs_sorted(Components, p), by |-> p]

IInv == TypeOK /\ Running /\ UpToDate /\ Saved /\ WithToolchain /\ Built /\ Flashed /\ Ordered

-----------------------------------------------------------------------------
LEMMA IInvInit == Init => IInv
  <1> SUFFICES ASSUME Init PROVE IInv
    OBVIOUS
  <1> USE DEF Init
  <1>1. TypeOK
    <2>1. calls \in 0..MaxCalls
      BY ToolAssumption
    <2>2. {newer, gui, split, kept, unsaved} \subseteq BOOLEAN
      OBVIOUS
    <2> QED BY <2>1, <2>2 DEF TypeOK
  <1>2. Running
    BY DEF Running
  <1>3. UpToDate /\ Saved /\ WithToolchain
    BY DEF UpToDate, Saved, WithToolchain
  <1>4. Built
    BY DEF Built
  <1>5. Flashed
    BY DEF Flashed, FlashAsAsked
  <1>6. Ordered
    BY DEF Ordered
  <1> QED BY <1>1, <1>2, <1>3, <1>4, <1>5, <1>6 DEF IInv

(* What stands for a file that is absent is no configuration; an empty     *)
(* file and the merged defaults are.                                       *)
LEMMA Configs ==
  /\ Absent \notin Config /\ Emptied \in Config /\ [tc : Edited, val : Values] \subseteq Config
  /\ NoConf \notin Toolchain /\ NoToolchain \in Toolchain
  BY ToolAssumption DEF Absent, Emptied, Config, Missing, NoToolchain, NoConf, Toolchain, None

LEMMA MergedType == TypeOK => Merged \in Config /\ Merged.tc = Wanted
  <1> SUFFICES ASSUME TypeOK PROVE Merged \in Config /\ Merged.tc = Wanted
    OBVIOUS
  <1>1. DefaultFiles[cached] \in Values
    BY ToolAssumption DEF TypeOK, Given
  <1>2. Wanted \in Toolchain
    BY Configs DEF TypeOK, Wanted
  <1> QED BY <1>1, <1>2 DEF Merged, Wanted, Config

LEMMA TypeStep == IInv /\ [Next]_vars => TypeOK'
  <1> SUFFICES ASSUME IInv, [Next]_vars PROVE TypeOK'
    OBVIOUS
  <1>t. TypeOK /\ Running
    BY DEF IInv
  <1> USE <1>t, Configs
  <1> USE DEF configVars, makeVars, memVars, infoVars, flashVars, ghostVars, At, Exits
  <1>1. CASE Start
    BY <1>1, ToolAssumption DEF Start, TypeOK
  <1>2. CASE RemoveConfig \/ ConfigOrClean \/ Distclean
    BY <1>2 DEF RemoveConfig, ConfigOrClean, Distclean, TypeOK
  <1>3. CASE Build
    BY <1>3 DEF Build, CallCmake, TypeOK
  <1>4. CASE Menuconfig
    BY <1>4 DEF Menuconfig, CallCmake, TypeOK
  <1>5. CASE Load
    BY <1>5, MergedType DEF Load, TypeOK
  <1>6. CASE WriteConfig \/ WriteCmake \/ WriteHeader
    BY <1>6 DEF WriteConfig, WriteCmake, WriteHeader, TypeOK
  <1>7. CASE Generate
    BY <1>7 DEF Generate, TypeOK
  <1>8. CASE Edit \/ Save \/ Leave
    BY <1>8 DEF Edit, Save, Leave, TypeOK
  <1>9. CASE Make \/ UpdateBuildInfo \/ Compile
    BY <1>9 DEF Make, UpdateBuildInfo, Compile, TypeOK
  <1>10. CASE Flash
    <2>1. PICK args \in [port : Ports \cup {Port0}, baud : Bauds \cup {Baud0}] :
            flash_conf' = Updated(flash_conf, args)
      BY <1>10 DEF Flash
    <2>2. flash_conf' \in [port : Ports \cup {Port0}, baud : Bauds \cup {Baud0}]
      BY <2>1 DEF Updated, NotAsked, TypeOK
    <2> QED BY <1>10, <2>2 DEF Flash, TypeOK
  <1>11. CASE RemoveDotConfig \/ RemoveConfigDir \/ CleanFlash
    BY <1>11 DEF RemoveDotConfig, RemoveConfigDir, CleanFlash, TypeOK
  <1>12. CASE Kill
    BY <1>12 DEF Kill, TypeOK
  <1>13. CASE Commit
    BY <1>13 DEF Commit, TypeOK
  <1>14. CASE UNCHANGED vars
    BY <1>14 DEF vars, TypeOK
  <1> QED
    BY <1>1, <1>2, <1>3, <1>4, <1>5, <1>6, <1>7, <1>8, <1>9, <1>10, <1>11, <1>12, <1>13, <1>14
       DEF Next, project, clean_conf, genconfig, make

LEMMA RunningStep == IInv /\ [Next]_vars => Running'
  <1> SUFFICES ASSUME TypeOK, Running, Flashed, [Next]_vars PROVE Running'
    BY DEF IInv
  <1> USE Configs
  <1> USE DEF configVars, makeVars, memVars, infoVars, flashVars, ghostVars, At, Exits, Running
  <1>1. CASE Start
    BY <1>1 DEF Start
  <1>2. CASE RemoveConfig \/ ConfigOrClean \/ Distclean
    BY <1>2 DEF RemoveConfig, ConfigOrClean, Distclean
  <1>3. CASE Build
    BY <1>3 DEF Build, CallCmake
  <1>4. CASE Menuconfig
    BY <1>4 DEF Menuconfig, CallCmake
  <1>5. CASE Load
    BY <1>5, MergedType DEF Load, TypeOK, Merged, Wanted
  <1>6. CASE WriteConfig
    BY <1>6 DEF WriteConfig
  <1>7. CASE WriteCmake
    BY <1>7 DEF WriteCmake
  <1>8. CASE WriteHeader
    BY <1>8 DEF WriteHeader
  <1>9. CASE Generate
    BY <1>9 DEF Generate
  <1>10. CASE Edit \/ Save \/ Leave
    BY <1>10 DEF Edit, Save, Leave
  <1>11. CASE Make \/ UpdateBuildInfo
    BY <1>11 DEF Make, UpdateBuildInfo
  <1>12. CASE Compile \/ Flash
    BY <1>12 DEF Compile, Flash
  <1>13. CASE RemoveDotConfig \/ RemoveConfigDir \/ CleanFlash
    BY <1>13 DEF RemoveDotConfig, RemoveConfigDir, CleanFlash
  <1>14. CASE Kill
    BY <1>14 DEF Kill
  <1>15. CASE Commit
    BY <1>15 DEF Commit
  <1>16. CASE UNCHANGED vars
    BY <1>16 DEF vars, Merged, Wanted
  <1> QED
    BY <1>1, <1>2, <1>3, <1>4, <1>5, <1>6, <1>7, <1>8, <1>9, <1>10, <1>11, <1>12, <1>13, <1>14,
       <1>15, <1>16 DEF Next, project, clean_conf, genconfig, make

(* Only genconfig.py, cmake and the commands that remove files change what *)
(* the files say.                                                          *)
LEMMA UpToDateStep == IInv /\ [Next]_vars => UpToDate'
  <1> SUFFICES ASSUME TypeOK, Running, UpToDate, [Next]_vars PROVE UpToDate'
    BY DEF IInv
  <1> USE DEF configVars, makeVars, memVars, infoVars, flashVars, ghostVars, At, Exits, UpToDate
  <1>1. CASE UNCHANGED <<cmake, header, newer, makefile>>
    BY <1>1
  <1>2. CASE Distclean \/ RemoveConfigDir
    BY <1>2 DEF Distclean, RemoveConfigDir
  <1>3. CASE WriteCmake
    BY <1>3 DEF WriteCmake, TypeOK
  <1>4. CASE WriteHeader
    BY <1>4 DEF WriteHeader, Running
  <1>5. CASE Generate
    BY <1>5 DEF Generate, Running
  <1>6. \/ UNCHANGED <<cmake, header, newer, makefile>>
        \/ Distclean \/ RemoveConfigDir \/ WriteCmake \/ WriteHeader \/ Generate
    BY DEF Next, project, clean_conf, genconfig, make, Start, RemoveConfig, ConfigOrClean, Build,
           Menuconfig, CallCmake, RemoveDotConfig, CleanFlash, Load, WriteConfig, Edit, Save,
           Leave, Make, UpdateBuildInfo, Compile, Flash, Kill, Commit, vars
  <1> QED BY <1>1, <1>2, <1>3, <1>4, <1>5, <1>6

LEMMA SavedStep == IInv /\ [Next]_vars => Saved'
  <1> SUFFICES ASSUME TypeOK, Running, Saved, [Next]_vars PROVE Saved'
    BY DEF IInv
  <1> USE DEF configVars, makeVars, memVars, infoVars, flashVars, ghostVars, At, Exits, Saved
  <1>1. CASE UNCHANGED <<mk, cmake, newer, saved, unsaved>>
               /\ (pc' \in {"gui", "write_config", "write_cmake"}
                   \/ pc \notin {"gui", "write_config", "write_cmake"})
    BY <1>1
  <1>2. CASE RemoveConfig \/ Distclean \/ RemoveConfigDir
    BY <1>2 DEF RemoveConfig, Distclean, RemoveConfigDir
  <1>3. CASE WriteConfig \/ Save
    BY <1>3 DEF WriteConfig, Save
  <1>4. CASE WriteCmake
    BY <1>4 DEF WriteCmake, Running
  <1>5. CASE Generate
    BY <1>5 DEF Generate, Running
  <1>6. CASE Kill
    BY <1>6 DEF Kill
  <1>7. \/ UNCHANGED <<mk, cmake, newer, saved, unsaved>>
             /\ (pc' \in {"gui", "write_config", "write_cmake"}
                 \/ pc \notin {"gui", "write_config", "write_cmake"})
        \/ RemoveConfig \/ Distclean \/ RemoveConfigDir \/ WriteConfig \/ Save \/ WriteCmake
        \/ Generate \/ Kill
    BY DEF Next, project, clean_conf, genconfig, make, Start, ConfigOrClean, Build, Menuconfig,
           CallCmake, RemoveDotConfig, CleanFlash, Load, WriteHeader, Edit, Leave, Make,
           UpdateBuildInfo, Compile, Flash, Commit, vars
  <1> QED BY <1>1, <1>2, <1>3, <1>4, <1>5, <1>6, <1>7

LEMMA ToolchainStep == IInv /\ [Next]_vars => WithToolchain'
  <1> SUFFICES ASSUME TypeOK, Running, WithToolchain, [Next]_vars PROVE WithToolchain'
    BY DEF IInv
  <1> USE Configs
  <1> USE DEF configVars, makeVars, memVars, infoVars, flashVars, ghostVars, At, Exits, WithToolchain,
              Wanted
  <1>1. CASE UNCHANGED <<conf, mk, split, kept>>
               /\ (pc' \in {"remove", "rmtree"} \/ pc \notin {"remove", "rmtree"})
    BY <1>1
  <1>2. CASE Start
    BY <1>2 DEF Start
  <1>3. CASE RemoveConfig \/ Distclean \/ RemoveConfigDir
    BY <1>3 DEF RemoveConfig, Distclean, RemoveConfigDir
  <1>4. CASE RemoveDotConfig
    BY <1>4 DEF RemoveDotConfig
  <1>5. CASE WriteConfig
    BY <1>5, MergedType DEF WriteConfig, Running
  <1>6. CASE Save
    BY <1>6 DEF Save, Running
  <1>7. CASE Kill
    BY <1>7 DEF Kill, TypeOK
  <1>8. \/ UNCHANGED <<conf, mk, split, kept>>
             /\ (pc' \in {"remove", "rmtree"} \/ pc \notin {"remove", "rmtree"})
        \/ Start \/ RemoveConfig \/ Distclean \/ RemoveConfigDir \/ RemoveDotConfig
        \/ WriteConfig \/ Save \/ Kill
    BY DEF Next, project, clean_conf, genconfig, make, ConfigOrClean, Build, Menuconfig, CallCmake,
           CleanFlash, Load, WriteCmake, WriteHeader, Generate, Edit, Leave, Make,
           UpdateBuildInfo, Compile, Flash, Commit, vars
  <1> QED BY <1>1, <1>2, <1>3, <1>4, <1>5, <1>6, <1>7, <1>8

LEMMA BuiltStep == IInv /\ [Next]_vars => Built'
  <1> SUFFICES ASSUME TypeOK, Running, UpToDate, Saved, Built, [Next]_vars PROVE Built'
    BY DEF IInv
  <1> USE DEF configVars, makeVars, memVars, infoVars, flashVars, ghostVars, At, Exits
  <1>1. CASE objs' = NoObjs /\ pc' # "compile"
    BY <1>1 DEF Built
  <1>2. CASE UpdateBuildInfo
    BY <1>2 DEF UpdateBuildInfo, append_time_info, remove_old_config_info, Built,
                Running
  <1>3. CASE Compile
    <2>1. CASE objs' = [conf |-> makefile, header |-> header, version |-> version_h]
      <3>1. ~unsaved => makefile = saved /\ header = saved
        BY <1>3 DEF Compile, Running, UpToDate, Saved
      <3>2. objs'.version = <<git_define(describe(tree))>> /\ tree' = tree
        BY <1>3, <2>1 DEF Compile, Built
      <3> QED BY <1>3, <2>1, <3>1, <3>2 DEF Compile, Built
    <2>2. CASE objs' = objs
      BY <1>3, <2>2 DEF Compile, Running, Built
    <2> QED BY <1>3, <2>1, <2>2 DEF Compile
  <1>4. CASE UNCHANGED vars
    BY <1>4 DEF vars, Built
  <1>5. CASE pc # "idle" /\ ~UpdateBuildInfo /\ ~Compile /\ ~UNCHANGED vars
    <2>1. objs = NoObjs
      BY <1>5 DEF Running
    <2>2. objs' = objs /\ pc' # "compile"
      BY <1>5
         DEF Next, project, clean_conf, genconfig, make, Start, RemoveConfig, ConfigOrClean,
             Distclean, Build, Menuconfig, CallCmake, RemoveDotConfig, RemoveConfigDir, CleanFlash,
             Load, WriteConfig, WriteCmake, WriteHeader, Generate, Edit, Save, Leave, Make,
             Flash, Kill, Commit
    <2> QED BY <1>1, <2>1, <2>2
  <1>6. CASE Start \/ Commit
    BY <1>1, <1>6 DEF Start, Commit
  <1>7. \/ UpdateBuildInfo \/ Compile \/ UNCHANGED vars
        \/ pc # "idle" /\ ~UpdateBuildInfo /\ ~Compile /\ ~UNCHANGED vars
        \/ Start \/ Commit
    BY DEF Next, project, clean_conf, genconfig, make, RemoveConfig, ConfigOrClean, Distclean,
           Build, Menuconfig, CallCmake, RemoveDotConfig, RemoveConfigDir, CleanFlash, Load,
           WriteConfig, WriteCmake, WriteHeader, Generate, Edit, Save, Leave, Make, Flash, Kill
  <1> QED BY <1>2, <1>3, <1>4, <1>5, <1>6, <1>7

(* An argument that is not the default replaces what is saved, which is    *)
(* what was asked before.                                                  *)
LEMMA UpdatedAsAsked ==
    ASSUME Flashed, NEW args \in [port : Ports \cup {Port0}, baud : Bauds \cup {Baud0}]
    PROVE  Updated(flash_conf, args) =
             [port |-> IF args.port \in Ports THEN args.port ELSE asked.port,
              baud |-> IF args.baud \in Bauds THEN args.baud ELSE asked.baud]
  <1>1. asked = IF flash_conf = NoFlash THEN NotAsked ELSE flash_conf
    BY DEF Flashed
  <1>2. /\ args.port # Port0 <=> args.port \in Ports
        /\ args.baud # Baud0 <=> args.baud \in Bauds
    BY ToolAssumption
  <1> QED BY <1>1, <1>2 DEF Updated

LEMMA FlashedStep == IInv /\ [Next]_vars => Flashed'
  <1> SUFFICES ASSUME TypeOK, Running, Flashed, [Next]_vars PROVE Flashed'
    BY DEF IInv
  <1> USE DEF configVars, makeVars, memVars, infoVars, flashVars, ghostVars, At, Exits
  <1>1. CASE UNCHANGED flashVars
    BY <1>1 DEF Flashed, FlashAsAsked
  <1>2. CASE Start
    BY <1>2 DEF Start, Flashed, FlashAsAsked
  <1>3. CASE Flash
    <2>1. PICK args \in [port : Ports \cup {Port0}, baud : Bauds \cup {Baud0}] :
            /\ flash_conf' = Updated(flash_conf, args)
            /\ used' = flash_conf'
            /\ asked' = [port |-> IF args.port \in Ports THEN args.port ELSE asked.port,
                         baud |-> IF args.baud \in Bauds THEN args.baud ELSE asked.baud]
      BY <1>3 DEF Flash
    <2>2. flash_conf' = asked'
      BY <2>1, UpdatedAsAsked
    <2>3. flash_conf'.port # Missing
      <3>1. flash_conf.port \in Ports \cup {Port0} \/ flash_conf = NoFlash
        BY DEF TypeOK
      <3>2. flash_conf'.port \in Ports \cup {Port0}
        BY <2>1, <3>1 DEF Updated, NotAsked
      <3> QED BY <3>2, ToolAssumption
    <2> QED BY <2>1, <2>2, <2>3 DEF Flashed, FlashAsAsked, NoFlash
  <1>4. CASE CleanFlash
    BY <1>4 DEF CleanFlash, Running, Flashed, FlashAsAsked
  <1>5. UNCHANGED flashVars \/ Start \/ Flash \/ CleanFlash
    BY DEF Next, project, clean_conf, genconfig, make, RemoveConfig, ConfigOrClean, Distclean,
           Build, Menuconfig, CallCmake, RemoveDotConfig, RemoveConfigDir, Load,
           WriteConfig, WriteCmake, WriteHeader, Generate, Edit, Save, Leave, Make,
           UpdateBuildInfo, Compile, Kill, Commit, vars
  <1> QED BY <1>1, <1>2, <1>3, <1>4, <1>5

LEMMA OrderedStep == IInv /\ [Next]_vars => Ordered'
  <1> SUFFICES ASSUME Ordered, [Next]_vars PROVE Ordered'
    BY DEF IInv
  <1> USE DEF configVars, makeVars, memVars, infoVars, flashVars, ghostVars, At, Exits, Ordered
  <1>1. CASE UNCHANGED <<makefile, order>>
    BY <1>1
  <1>2. CASE Distclean
    BY <1>2 DEF Distclean
  <1>3. CASE Generate
    BY <1>3 DEF Generate
  <1>4. UNCHANGED <<makefile, order>> \/ Distclean \/ Generate
    BY DEF Next, project, clean_conf, genconfig, make, Start, RemoveConfig, ConfigOrClean, Build,
           Menuconfig, CallCmake, RemoveDotConfig, RemoveConfigDir, CleanFlash, Load, WriteConfig,
           WriteCmake, WriteHeader, Edit, Save, Leave, Make, UpdateBuildInfo, Compile, Flash,
           Kill, Commit, vars
  <1> QED BY <1>1, <1>2, <1>3, <1>4

-----------------------------------------------------------------------------
(* The parts of git's description are told apart by their number: that is  *)
(* right for every tree whose tag has no dash.                             *)
LEMMA Concat ==
    ASSUME NEW S, NEW a \in Seq(S), NEW e \in S
    PROVE  /\ a \o <<e>> \in Seq(S) /\ Len(a \o <<e>>) = Len(a) + 1
           /\ \A k \in 1..Len(a) : (a \o <<e>>)[k] = a[k]
           /\ (a \o <<e>>)[Len(a) + 1] = e
           /\ a \o <<>> = a
  <1>1. <<e>> \in Seq(S) /\ Len(<<e>>) = 1 /\ <<e>>[1] = e /\ Len(a) \in Nat
    OBVIOUS
  <1>2. a \o <<>> = a
    BY ConcatEmptySeq
  <1> QED BY <1>1, <1>2, ConcatProperties

LEMMA LengthOne ==
    ASSUME NEW S, NEW s \in Seq(S), Len(s) <= 1, s # <<>>
    PROVE  Len(s) = 1
  <1>1. Len(s) \in Nat \ {0}
    BY EmptySeq
  <1>2. \A n \in Nat \ {0} : n <= 1 => n = 1
    OBVIOUS
  <1> QED BY <1>1, <1>2

LEMMA PartsOfDescription ==
    ASSUME NEW t, t.tag \in Seq(Part), t.n \in Nat, t.dirty \in BOOLEAN, Len(t.tag) <= 1
    PROVE  LET p == describe(t)
               l == IF t.tag = <<>> THEN 1 ELSE 3
           IN /\ Len(p) = IF t.dirty THEN l + 1 ELSE l
              /\ p[l] = <<"hash", t.hash>>
              /\ t.dirty => p[l + 1] = <<"dirty", 0>>
              /\ t.tag # <<>> => p[1] = t.tag[1] /\ p[2] = <<"n", t.n>>
  <1> DEFINE n == <<"n", t.n>>
             hash == <<"hash", t.hash>>
             dirty == <<"dirty", 0>>
             S == Part \cup {n, hash, dirty}
             l == IF t.tag = <<>> THEN 1 ELSE 3
             name == t.tag \o (IF t.tag = <<>> THEN <<>> ELSE <<n>>)
             clean == name \o <<hash>>
  <1>1. n \in S /\ hash \in S /\ dirty \in S /\ t.tag \in Seq(S)
    BY SMT
  <1>2. describe(t) = clean \o (IF t.dirty THEN <<dirty>> ELSE <<>>)
    BY DEF describe
  <1> HIDE DEF n, hash, dirty, S
  <1>3. t.tag # <<>> => Len(t.tag) = 1
    BY <1>1, LengthOne
  <1>4. /\ name \in Seq(S) /\ Len(name) = l - 1
        /\ t.tag # <<>> => name[1] = t.tag[1] /\ name[2] = n
    <2>1. CASE t.tag = <<>>
      BY <1>1, <2>1, Concat
    <2>2. CASE t.tag # <<>>
      BY <1>1, <1>3, <2>2, Concat
    <2> QED BY <2>1, <2>2
  <1> HIDE DEF name
  <1>5. /\ clean \in Seq(S) /\ Len(clean) = l /\ clean[l] = hash
        /\ t.tag # <<>> => clean[1] = t.tag[1] /\ clean[2] = n
    BY <1>1, <1>4, Concat
  <1> HIDE DEF clean
  <1>6. CASE t.dirty
    <2>1. /\ Len(describe(t)) = l + 1 /\ describe(t)[l + 1] = dirty
          /\ \A k \in 1..l : describe(t)[k] = clean[k]
      BY <1>1, <1>2, <1>5, <1>6, Concat
    <2> QED BY <1>5, <1>6, <2>1 DEF n, hash, dirty
  <1>7. CASE ~t.dirty
    <2>1. describe(t) = clean
      BY <1>1, <1>2, <1>5, <1>7, Concat
    <2> QED BY <1>5, <1>7, <2>1 DEF n, hash, dirty
  <1> QED BY <1>6, <1>7

LEMMA DescriptionRead ==
    ASSUME NEW t, t.tag \in Seq(Part), t.n \in Nat, t.dirty \in BOOLEAN, Len(t.tag) <= 1
    PROVE  git_define(describe(t)) = VersionOf(t)
  <1> DEFINE p == describe(t)
             l == IF t.tag = <<>> THEN 1 ELSE 3
             numbers == IF t.tag # <<>> /\ Is(t.tag[1], "v") THEN Append(t.tag[1][2], t.n) ELSE <<>>
  <1>1. /\ Len(p) = IF t.dirty THEN l + 1 ELSE l
        /\ p[l] = <<"hash", t.hash>>
        /\ t.dirty => p[l + 1] = <<"dirty", 0>>
        /\ t.tag # <<>> => p[1] = t.tag[1] /\ p[2] = <<"n", t.n>>
    BY PartsOfDescription
  <1>2. ~Is(p[l], "dirty") /\ (t.dirty => Is(p[l + 1], "dirty"))
    BY <1>1 DEF Is
  <1>3. t.tag # <<>> => NumbersAnd(p[1], p[2]) = numbers
    BY <1>1 DEF NumbersAnd, Is
  <1>4. t.tag = <<>> => numbers = <<>>
    OBVIOUS
  <1> HIDE DEF p, numbers
  <1>5. Described(p) = [numbers |-> numbers, hash |-> p[l], dirty |-> t.dirty]
    <2>1. CASE t.tag = <<>> /\ ~t.dirty
      <3>1. Len(p) = 1
        BY <1>1, <2>1
      <3>2. Described(p) = [numbers |-> <<>>, hash |-> p[1], dirty |-> FALSE]
        BY <3>1 DEF Described
      <3> QED BY <1>4, <2>1, <3>2
    <2>2. CASE t.tag = <<>> /\ t.dirty
      <3>1. Len(p) = 2 /\ Is(p[2], "dirty")
        BY <1>1, <1>2, <2>2
      <3>2. Described(p) = [numbers |-> <<>>, hash |-> p[1], dirty |-> TRUE]
        BY <3>1 DEF Described
      <3> QED BY <1>4, <2>2, <3>2
    <2>3. CASE t.tag # <<>> /\ ~t.dirty
      <3>1. Len(p) = 3 /\ ~Is(p[3], "dirty")
        BY <1>1, <1>2, <2>3
      <3>2. Described(p) = [numbers |-> NumbersAnd(p[1], p[2]), hash |-> p[3], dirty |-> FALSE]
        BY <3>1 DEF Described
      <3> QED BY <1>3, <2>3, <3>2
    <2>4. CASE t.tag # <<>> /\ t.dirty
      <3>1. Len(p) = 4 /\ Len(p) # 1 /\ Len(p) # 2 /\ Len(p) # 3 /\ Is(p[4], "dirty")
        BY <1>1, <1>2, <2>4
      <3>2. Described(p) = [numbers |-> NumbersAnd(p[1], p[2]), hash |-> p[3],
                            dirty |-> Is(p[4], "dirty")]
        BY <3>1, Zenon DEF Described
      <3> QED BY <1>3, <2>4, <3>1, <3>2 DEF Is
    <2> QED BY <2>1, <2>2, <2>3, <2>4
  <1> QED BY <1>1, <1>5 DEF git_define, GitDefine, VersionOf, p, numbers

-----------------------------------------------------------------------------
(* Induction along the numbers, with the set of those that are right in    *)
(* place of a predicate, and from it recursion: a set of states, each step *)
(* a function on it.                                                       *)
LEMMA LeastMember ==
    ASSUME NEW T \in SUBSET Nat, T # {}
    PROVE  \E n \in T : \A m \in T : n <= m
  <1> DEFINE F == {1..n : n \in T}
             R == StrictSubsetOrdering(Nat)
             S == FiniteSubsetsOf(Nat)
  <1>1. IsWellFoundedOn(R, S)
    BY FS_StrictSubsetOrderingWellFounded, Zenon
  <1>2. F \subseteq S /\ F # {}
    <2>1. \A n \in Nat : 1..n \in SUBSET Nat /\ IsFiniteSet(1..n)
      BY FS_Interval
    <2> QED BY <2>1 DEF FiniteSubsetsOf
  <1>3. \A U, V \in SUBSET Nat : U \subseteq V /\ U # V => <<U, V>> \in R
    BY DEF StrictSubsetOrdering
  <1>4. PICK U \in F : \A V \in F : ~(<<V, U>> \in R)
    <2> HIDE DEF F, R, S
    <2> QED BY <1>1, <1>2, WFMin
  <1>5. PICK n \in T : U = 1..n
    BY <1>4
  <1>6. ASSUME NEW m \in T, m < n PROVE FALSE
    <2>1. 1..m \in F /\ 1..m \subseteq 1..n /\ n \in 1..n /\ n \notin 1..m
      BY <1>6
    <2>2. 1..m \in SUBSET Nat /\ 1..n \in SUBSET Nat
      BY <1>6
    <2> QED BY <2>1, <2>2, <1>3, <1>4, <1>5
  <1> QED BY <1>6

LEMMA Induct ==
    ASSUME NEW S \in SUBSET Nat, 0 \in S, \A n \in S : n + 1 \in S
    PROVE  S = Nat
  <1> SUFFICES ASSUME Nat \ S # {} PROVE FALSE
    OBVIOUS
  <1>1. PICK n \in Nat \ S : \A m \in Nat \ S : n <= m
    BY LeastMember
  <1>2. n # 0 /\ n - 1 \in Nat
    BY <1>1
  <1>3. n - 1 \in S
    BY <1>1, <1>2
  <1> QED BY <1>1, <1>2, <1>3

LEMMA Recursion ==
    ASSUME NEW V, NEW a \in V, NEW n \in Nat, NEW G \in [1..n -> [V -> V]]
    PROVE  \E f \in [0..n -> V] : f[0] = a /\ \A k \in 1..n : f[k] = G[k][f[k - 1]]
  <1> DEFINE Ok(f, m) == f[0] = a /\ \A k \in 1..m : f[k] = G[k][f[k - 1]]
             S == {m \in Nat : m <= n => \E f \in [0..m -> V] : Ok(f, m)}
  <1>1. 0 \in S
    <2>1. Ok([k \in 0..0 |-> a], 0) /\ [k \in 0..0 |-> a] \in [0..0 -> V]
      OBVIOUS
    <2> QED BY <2>1
  <1>2. ASSUME NEW m \in S PROVE m + 1 \in S
    <2>m. m \in Nat /\ m + 1 \in Nat
      OBVIOUS
    <2> SUFFICES ASSUME m + 1 <= n PROVE \E f \in [0..(m + 1) -> V] : Ok(f, m + 1)
      BY <2>m
    <2>1. PICK f \in [0..m -> V] : Ok(f, m)
      BY <2>m
    <2> DEFINE g == [k \in 0..(m + 1) |-> IF k = m + 1 THEN G[m + 1][f[m]] ELSE f[k]]
    <2>2. m \in Nat /\ m + 1 \in 1..n /\ f[m] \in V
      BY <2>m, <2>1
    <2>3. G[m + 1][f[m]] \in V
      BY <2>2
    <2>4. g \in [0..(m + 1) -> V]
      BY <2>1, <2>2, <2>3
    <2>5. g[0] = a
      BY <2>1, <2>2
    <2>6. \A k \in 1..(m + 1) : g[k] = G[k][g[k - 1]]
      BY <2>1, <2>2
    <2> QED BY <2>4, <2>5, <2>6
  <1>3. S = Nat
    <2> HIDE DEF S
    <2>1. S \in SUBSET Nat
      BY DEF S
    <2> QED BY <1>1, <1>2, <2>1, Induct
  <1> QED BY <1>3

(* The last place of a name.                                               *)
LEMMA LastPlace ==
    ASSUME NEW names, names \in Seq(ToSet(names)), NEW x \in ToSet(names)
    PROVE  Max({k \in DOMAIN names : names[k] = x}) \in 1..Len(names)
  <1> DEFINE K == {k \in DOMAIN names : names[k] = x}
             T == {Len(names) - k : k \in K}
  <1>1. DOMAIN names = 1..Len(names) /\ Len(names) \in Nat
    OBVIOUS
  <1>2. K # {} /\ K \subseteq 1..Len(names)
    BY <1>1 DEF ToSet
  <1>3. T # {} /\ T \in SUBSET Nat
    BY <1>1, <1>2
  <1>4. PICK t \in T : \A u \in T : t <= u
    <2> HIDE DEF T
    <2> QED BY <1>3, LeastMember
  <1>5. PICK k \in K : t = Len(names) - k
    BY <1>4
  <1>6. ASSUME NEW j \in K PROVE k >= j
    <2>1. Len(names) - j \in T
      OBVIOUS
    <2>2. Len(names) - k <= Len(names) - j
      BY <1>4, <1>5, <2>1
    <2>3. k \in Nat /\ j \in Nat /\ Len(names) \in Nat
      BY <1>1, <1>2
    <2> HIDE DEF K, T
    <2> QED BY <2>2, <2>3
  <1> HIDE DEF K
  <1>7. Max(K) \in K
    BY <1>5, <1>6 DEF Max
  <1> QED BY <1>2, <1>7 DEF K

(* Placed() inserts the component before the first that has a later place  *)
(* in the file, or at the end.                                             *)
LEMMA PlacedWhere ==
    ASSUME NEW C, NEW c \in C, NEW list \in Seq(C), NEW places
    PROVE  \E j \in 1..(Len(list) + 1) :
             /\ Placed(c, list, places) \in Seq(C)
             /\ Len(Placed(c, list, places)) = Len(list) + 1
             /\ \A x \in 1..(Len(list) + 1) : Placed(c, list, places)[x] =
                  IF x < j THEN list[x] ELSE IF x = j THEN c ELSE list[x - 1]
             /\ \A x \in 1..Len(list) : x < j => ~(places[c.name] < places[list[x].name])
             /\ j <= Len(list) => places[c.name] < places[list[j].name]
  <1> DEFINE later == {j \in DOMAIN list : places[c.name] < places[list[j].name]}
             j == Min(later)
             n == Len(list)
  <1>1. n \in Nat /\ DOMAIN list = 1..n
    OBVIOUS
  <1>2. CASE later = {}
    <2>1. Placed(c, list, places) = Append(list, c)
      BY <1>2 DEF Placed
    <2>2. /\ Append(list, c) \in Seq(C) /\ Len(Append(list, c)) = n + 1
          /\ \A x \in 1..n : Append(list, c)[x] = list[x]
          /\ Append(list, c)[n + 1] = c
      OBVIOUS
    <2>3. \A x \in 1..n : ~(places[c.name] < places[list[x].name])
      BY <1>1, <1>2
    <2> WITNESS n + 1 \in 1..(Len(list) + 1)
    <2> HIDE DEF later
    <2> QED BY <1>1, <2>1, <2>2, <2>3
  <1>3. CASE later # {}
    <2>1. later \in SUBSET Nat
      BY <1>1
    <2>2. j \in later /\ \A k \in later : j <= k
      <3>1. \E k \in later : \A m \in later : k <= m
        <4> HIDE DEF later
        <4> QED BY <1>3, <2>1, LeastMember
      <3> HIDE DEF later
      <3> QED BY <3>1 DEF Min
    <2>3. j \in 1..n /\ places[c.name] < places[list[j].name]
      BY <1>1, <2>2
    <2>4. \A x \in 1..n : x < j => ~(places[c.name] < places[list[x].name])
      <3> SUFFICES ASSUME NEW x \in 1..n, x < j, places[c.name] < places[list[x].name] PROVE FALSE
        OBVIOUS
      <3>1. x \in later
        BY <1>1
      <3>2. j <= x
        <4> HIDE DEF later, j
        <4> QED BY <2>2, <3>1
      <3>3. j \in Nat /\ x \in Nat
        BY <2>3, <1>1
      <3> HIDE DEF later, j
      <3> QED BY <3>2, <3>3
    <2>5. Placed(c, list, places) = SubSeq(list, 1, j - 1) \o <<c>> \o SubSeq(list, j, n)
      BY <1>3 DEF Placed, InsertAt
    <2> HIDE DEF later, j
    <2> DEFINE A == SubSeq(list, 1, j - 1)
               B == SubSeq(list, j, n)
    <2>6. A \in Seq(C) /\ Len(A) = j - 1 /\ \A x \in 1..(j - 1) : A[x] = list[x]
      <3>1. 1 \in Int /\ j - 1 \in Int /\ (j - 1) - 1 + 1 = j - 1 /\ \A x \in 1..(j - 1) : 1 + x - 1 = x
        BY <1>1, <2>3
      <3>2. \A i \in 1..(j - 1) : list[i] \in C
        BY <1>1, <2>3
      <3>3. (IF 1 <= j - 1 THEN (j - 1) - 1 + 1 ELSE 0) = j - 1
        BY <1>1, <2>3
      <3> QED BY <3>1, <3>2, <3>3, SubSeqProperties
    <2>7. B \in Seq(C) /\ Len(B) = n - j + 1 /\ \A x \in 1..(n - j + 1) : B[x] = list[j + x - 1]
      <3>1. \A i \in j..n : list[i] \in C
        BY <1>1, <2>3
      <3>2. (IF j <= n THEN n - j + 1 ELSE 0) = n - j + 1 /\ j \in Int /\ n \in Int
        BY <1>1, <2>3
      <3> QED BY <3>1, <3>2, SubSeqProperties
    <2>8. <<c>> \in Seq(C) /\ Len(<<c>>) = 1 /\ <<c>>[1] = c
      OBVIOUS
    <2> HIDE DEF A, B, n
    <2> DEFINE D == A \o <<c>>
    <2>9. D \in Seq(C) /\ Len(D) = j /\ \A x \in 1..j : D[x] = IF x < j THEN list[x] ELSE c
      <3>1. /\ D \in Seq(C) /\ Len(D) = Len(A) + Len(<<c>>)
            /\ \A x \in 1..(Len(A) + Len(<<c>>)) : D[x] = IF x <= Len(A) THEN A[x] ELSE <<c>>[x - Len(A)]
        BY <2>6, <2>8, ConcatProperties
      <3> HIDE DEF D
      <3>2. j \in Nat /\ j >= 1
        BY <2>3
      <3>3. Len(D) = j /\ \A x \in 1..j : D[x] = IF x <= j - 1 THEN A[x] ELSE <<c>>[x - (j - 1)]
        BY <2>6, <2>8, <3>1, <3>2
      <3>4. ASSUME NEW x \in 1..j PROVE D[x] = IF x < j THEN list[x] ELSE c
        <4>1. CASE x < j
          BY <2>6, <3>2, <3>3, <4>1
        <4>2. CASE x = j
          <5>1. x - (j - 1) = 1 /\ ~(x <= j - 1)
            BY <3>2, <4>2
          <5> QED BY <2>8, <3>3, <4>2, <5>1
        <4> QED BY <3>2, <4>1, <4>2
      <3> QED BY <3>1, <3>3, <3>4
    <2> HIDE DEF D
    <2>10. /\ D \o B \in Seq(C) /\ Len(D \o B) = n + 1
           /\ \A x \in 1..(n + 1) : (D \o B)[x] = IF x < j THEN list[x] ELSE IF x = j THEN c ELSE list[x - 1]
      <3>1. /\ D \o B \in Seq(C) /\ Len(D \o B) = Len(D) + Len(B)
            /\ \A x \in 1..(Len(D) + Len(B)) : (D \o B)[x] = IF x <= Len(D) THEN D[x] ELSE B[x - Len(D)]
        BY <2>7, <2>9, ConcatProperties
      <3>2. Len(D) + Len(B) = n + 1 /\ j \in Nat
        BY <1>1, <2>3, <2>7, <2>9
      <3>3. ASSUME NEW x \in 1..(n + 1)
            PROVE  (D \o B)[x] = IF x < j THEN list[x] ELSE IF x = j THEN c ELSE list[x - 1]
        <4>1. (D \o B)[x] = IF x <= j THEN D[x] ELSE B[x - j]
          BY <2>9, <3>1, <3>2
        <4>2. CASE x <= j
          BY <1>1, <2>3, <2>9, <4>1, <4>2
        <4>3. CASE x > j
          <5>1. x - j \in 1..(n - j + 1) /\ j + (x - j) - 1 = x - 1 /\ ~(x <= j) /\ ~(x < j) /\ x # j
            BY <1>1, <2>3, <4>3
          <5>2. B[x - j] = list[x - 1]
            BY <2>7, <5>1
          <5> QED BY <4>1, <5>1, <5>2
        <4> QED BY <1>1, <3>2, <4>2, <4>3
      <3> QED BY <3>1, <3>2, <3>3
    <2>11. Placed(c, list, places) = D \o B
      BY <2>5 DEF D, A, B
    <2>12. j \in 1..(Len(list) + 1)
      BY <1>1, <2>3 DEF n
    <2> QED BY <1>1, <2>3, <2>4, <2>10, <2>11, <2>12 DEF n
  <1> QED BY <1>2, <1>3

(* One component goes into one of the lists.                               *)
LEMMA AddedType ==
    ASSUME NEW C, NEW c \in C, NEW places, NEW p \in [final : Seq(C), others : Seq(C)]
    PROVE  Added(c, p, places) \in [final : Seq(C), others : Seq(C)]
  <1>1. PICK l \in Seq(C) : l = Placed(c, p.final, places)
    BY PlacedWhere
  <1>2. Append(p.others, c) \in Seq(C)
    OBVIOUS
  <1> QED BY <1>1, <1>2 DEF Added

(* The recursion of Sorting() has a value.                                 *)
LEMMA SortingSteps ==
    ASSUME NEW C, NEW cs \in Seq(C), NEW places
    PROVE  /\ Sorting(cs, places) \in [0..Len(cs) -> [final : Seq(C), others : Seq(C)]]
           /\ Sorting(cs, places)[0] = [final |-> <<>>, others |-> <<>>]
           /\ \A k \in 1..Len(cs) :
                Sorting(cs, places)[k] = Added(cs[k], Sorting(cs, places)[k - 1], places)
  <1> DEFINE V == [final : Seq(C), others : Seq(C)]
             a == [final |-> <<>>, others |-> <<>>]
             n == Len(cs)
             G == [k \in 1..n |-> [p \in V |-> Added(cs[k], p, places)]]
             Steps(f) == [k \in 0..n |-> IF k = 0 THEN a ELSE Added(cs[k], f[k - 1], places)]
  <1>1. n \in Nat /\ a \in V
    BY EmptySeq
  <1>2. G \in [1..n -> [V -> V]]
    <2>1. ASSUME NEW k \in 1..n, NEW p \in V PROVE Added(cs[k], p, places) \in V
      <3>1. cs[k] \in C
        OBVIOUS
      <3> QED BY <3>1, AddedType
    <2> HIDE DEF V
    <2> QED BY <2>1
  <1>3. PICK g \in [0..n -> V] : g[0] = a /\ \A k \in 1..n : g[k] = G[k][g[k - 1]]
    <2> HIDE DEF V, a, n, G
    <2> QED BY <1>1, <1>2, Recursion
  <1>4. g = Steps(g)
    <2>1. \A k \in 1..n : k - 1 \in 0..n /\ g[k] = Added(cs[k], g[k - 1], places)
      <3>1. ASSUME NEW k \in 1..n PROVE k - 1 \in 0..n /\ g[k - 1] \in V
        <4>1. k - 1 \in 0..n
          BY <1>1
        <4> HIDE DEF V, n
        <4> QED BY <4>1
      <3> HIDE DEF V
      <3> QED BY <1>3, <3>1
    <2> HIDE DEF V, a, n, G
    <2> QED BY <1>1, <1>3, <2>1
  <1>5. Sorting(cs, places) = CHOOSE f : f = Steps(f)
    BY DEF Sorting
  <1>6. Sorting(cs, places) = Steps(Sorting(cs, places))
    <2> HIDE DEF Steps
    <2> QED BY <1>4, <1>5
  <1> DEFINE f == Sorting(cs, places)
  <1>7. f[0] = a /\ \A k \in 1..n : f[k] = Added(cs[k], f[k - 1], places)
    <2>1. \A k \in 0..n : f[k] = IF k = 0 THEN a ELSE Added(cs[k], f[k - 1], places)
      <3> HIDE DEF a, n
      <3> QED BY <1>6
    <2> HIDE DEF f, a, n
    <2> QED BY <1>1, <2>1
  <1>8. DOMAIN f = 0..n
    <2> HIDE DEF a, n
    <2> QED BY <1>6
  <1>9. \A k \in 0..n : f[k] \in V
    <2> DEFINE S == {k \in Nat : k <= n => f[k] \in V}
    <2>1. 0 \in S
      BY <1>1, <1>7
    <2>2. ASSUME NEW k \in S PROVE k + 1 \in S
      <3>0. k \in Nat
        OBVIOUS
      <3> SUFFICES ASSUME k + 1 <= n PROVE f[k + 1] \in V
        BY <3>0
      <3>1. k + 1 \in 1..n /\ (k + 1) - 1 = k /\ f[k] \in V /\ cs[k + 1] \in C
        BY <3>0, <1>1
      <3>2. f[k + 1] = Added(cs[k + 1], f[k], places)
        <4> HIDE DEF f, V, S, n
        <4> QED BY <1>7, <3>1
      <3> HIDE DEF f, S
      <3> QED BY <3>1, <3>2, AddedType
    <2>3. S = Nat
      <3>1. S \in SUBSET Nat
        OBVIOUS
      <3> HIDE DEF S
      <3> QED BY <2>1, <2>2, <3>1, Induct
    <2> HIDE DEF f, V
    <2> QED BY <2>3, <1>1
  <1>10. f = [k \in 0..n |-> f[k]]
    <2> HIDE DEF a, n
    <2> QED BY <1>6
  <1> HIDE DEF V
  <1>11. f \in [0..n -> V]
    <2> HIDE DEF f, n
    <2> QED BY <1>9, <1>10
  <1> QED BY <1>7, <1>11 DEF V

(* What the first k components have become: each is in one of the lists,   *)
(* which are in the order that is asked for.                               *)
Arranged(p, k, cs, names) ==
  /\ Len(p.final) + Len(p.others) = k
  /\ \A x \in 1..Len(p.final) :
        p.final[x].name \in ToSet(names) /\ \E i \in 1..k : p.final[x] = cs[i]
  /\ \A x \in 1..Len(p.others) :
        p.others[x].name \notin ToSet(names) /\ \E i \in 1..k : p.others[x] = cs[i]
  /\ \A i \in 1..k : \/ \E x \in 1..Len(p.final) : cs[i] = p.final[x]
                     \/ \E x \in 1..Len(p.others) : cs[i] = p.others[x]
  /\ \A x, y \in 1..Len(p.final) : x < y => Before(p.final[x], p.final[y], cs, names)
  /\ \A x, y \in 1..Len(p.others) : x < y => Before(p.others[x], p.others[y], cs, names)

(* The facts about a list of distinct components and a file that the steps *)
(* below rest on: their ranks are numbers, and the place of the i-th is i. *)
LEMMA RanksAndPlaces ==
    ASSUME NEW cs, cs \in Seq(ToSet(cs)), \A i, j \in DOMAIN cs : cs[i] = cs[j] => i = j,
           NEW names, names \in Seq(ToSet(names))
    PROVE  /\ Len(names) \in Nat
           /\ \A c : /\ c.name \in ToSet(names) =>
                          Rank(c, names) \in 1..Len(names) /\ Rank(c, names) = dict_order(names)[c.name]
                     /\ c.name \notin ToSet(names) => Rank(c, names) = Len(names) + 1
           /\ \A i \in 1..Len(cs) : Place(cs[i], cs) = i
           /\ DOMAIN dict_order(names) = ToSet(names)
  <1>1. Len(names) \in Nat
    OBVIOUS
  <1>2. ASSUME NEW c, c.name \in ToSet(names)
        PROVE  Rank(c, names) \in 1..Len(names) /\ Rank(c, names) = dict_order(names)[c.name]
    BY <1>2, LastPlace DEF Rank, dict_order
  <1>3. \A c : c.name \notin ToSet(names) => Rank(c, names) = Len(names) + 1
    BY DEF Rank
  <1>4. ASSUME NEW i \in 1..Len(cs) PROVE Place(cs[i], cs) = i
    <2>1. DOMAIN cs = 1..Len(cs)
      OBVIOUS
    <2>2. \A k \in DOMAIN cs : cs[k] = cs[i] <=> k = i
      BY <2>1
    <2> QED BY <2>1, <2>2 DEF Place
  <1>5. DOMAIN dict_order(names) = ToSet(names)
    BY DEF dict_order
  <1> QED BY <1>1, <1>2, <1>3, <1>4, <1>5

LEMMA StepArranged ==
    ASSUME NEW cs, cs \in Seq(ToSet(cs)), \A i, j \in DOMAIN cs : cs[i] = cs[j] => i = j,
           NEW names, names \in Seq(ToSet(names)),
           NEW k \in 1..Len(cs), NEW p \in [final : Seq(ToSet(cs)), others : Seq(ToSet(cs))],
           Arranged(p, k - 1, cs, names)
    PROVE  Arranged(Added(cs[k], p, dict_order(names)), k, cs, names)
  <1> DEFINE places == dict_order(names)
             c == cs[k]
             C == ToSet(cs)
             q == Added(c, p, places)
             n == Len(p.final)
             m == Len(p.others)
  <1>r. /\ Len(names) \in Nat
        /\ \A d : /\ d.name \in ToSet(names) =>
                       Rank(d, names) \in 1..Len(names) /\ Rank(d, names) = places[d.name]
                  /\ d.name \notin ToSet(names) => Rank(d, names) = Len(names) + 1
        /\ \A i \in 1..Len(cs) : Place(cs[i], cs) = i
        /\ DOMAIN places = ToSet(names)
    BY RanksAndPlaces
  <1>k. k \in Nat /\ k >= 1 /\ k \in 1..k /\ k - 1 \in Nat /\ Len(cs) \in Nat /\ k <= Len(cs)
        /\ c \in C /\ Place(c, cs) = k
    BY <1>r
  <1>n. n \in Nat /\ m \in Nat /\ p.final \in Seq(C) /\ p.others \in Seq(C) /\ n + m = k - 1
    BY DEF Arranged
  \* An earlier component goes before a later one of the same rank.
  <1>e. ASSUME NEW d, \E i \in 1..(k - 1) : d = cs[i], Rank(d, names) <= Rank(c, names),
               Rank(d, names) \in Nat, Rank(c, names) \in Nat
        PROVE  Before(d, c, cs, names)
    <2>1. PICK i \in 1..(k - 1) : d = cs[i]
      BY <1>e
    <2>2. i \in 1..Len(cs) /\ i < k
      BY <1>k
    <2>3. Place(d, cs) < Place(c, cs)
      BY <1>k, <1>r, <2>1, <2>2
    <2> HIDE DEF c
    <2> QED BY <1>e, <2>3 DEF Before
  <1>1. CASE c.name \in ToSet(names)
    <2> DEFINE l == Placed(c, p.final, places)
    <2>1. q.final = l /\ q.others = p.others
      BY <1>1, <1>r DEF Added
    <2>2. PICK j \in 1..(n + 1) :
             /\ l \in Seq(C) /\ Len(l) = n + 1
             /\ \A x \in 1..(n + 1) : l[x] = IF x < j THEN p.final[x] ELSE IF x = j THEN c ELSE p.final[x - 1]
             /\ \A x \in 1..n : x < j => ~(places[c.name] < places[p.final[x].name])
             /\ j <= n => places[c.name] < places[p.final[j].name]
      BY <1>k, <1>n, PlacedWhere
    <2> HIDE DEF l, q, n, m, places, c
    <2>j. j \in Nat /\ 1 <= j /\ j <= n + 1 /\ Rank(c, names) \in Nat /\ Rank(c, names) = places[c.name]
      BY <1>1, <1>n, <1>r
    <2>f. /\ \A x \in 1..n : /\ p.final[x].name \in ToSet(names)
                            /\ Rank(p.final[x], names) \in Nat
                            /\ Rank(p.final[x], names) = places[p.final[x].name]
                            /\ \E i \in 1..(k - 1) : p.final[x] = cs[i]
          /\ \A x, y \in 1..n : x < y => Before(p.final[x], p.final[y], cs, names)
      BY <1>r DEF Arranged, n
    <2>3. Len(q.final) + Len(q.others) = k
      <3>1. Len(q.final) = n + 1 /\ Len(q.others) = m
        BY <2>1, <2>2 DEF m
      <3> QED BY <1>k, <1>n, <3>1
    <2>4. ASSUME NEW x \in 1..Len(q.final)
          PROVE  q.final[x].name \in ToSet(names) /\ \E i \in 1..k : q.final[x] = cs[i]
      <3>1. x \in 1..(n + 1)
        BY <2>1, <2>2
      <3>2. CASE x = j
        BY <1>1, <1>k, <2>1, <2>2, <3>1, <3>2, <2>j DEF c
      <3>3. CASE x # j
        <4>1. PICK y \in 1..n : q.final[x] = p.final[y]
          <5>1. CASE x < j
            BY <1>n, <2>1, <2>2, <2>j, <3>1, <5>1
          <5>2. CASE x > j
            BY <1>n, <2>1, <2>2, <2>j, <3>1, <5>2
          <5> QED BY <3>1, <3>3, <5>1, <5>2, <1>n, <2>j
        <4>2. PICK i \in 1..(k - 1) : p.final[y] = cs[i]
          BY <2>f
        <4>3. i \in 1..k
          BY <1>k
        <4> QED BY <2>f, <4>1, <4>2, <4>3
      <3> QED BY <3>2, <3>3
    <2>5. ASSUME NEW x \in 1..Len(q.others)
          PROVE  q.others[x].name \notin ToSet(names) /\ \E i \in 1..k : q.others[x] = cs[i]
      <3>1. p.others[x].name \notin ToSet(names) /\ \E i \in 1..(k - 1) : p.others[x] = cs[i]
        BY <2>1 DEF Arranged
      <3>2. 1..(k - 1) \subseteq 1..k
        BY <1>k
      <3> QED BY <2>1, <3>1, <3>2
    <2>6. ASSUME NEW i \in 1..k
          PROVE  \/ \E x \in 1..Len(q.final) : cs[i] = q.final[x]
                 \/ \E x \in 1..Len(q.others) : cs[i] = q.others[x]
      <3>1. CASE i = k
        <4>1. q.final[j] = c /\ j \in 1..Len(q.final)
          BY <2>1, <2>2, <2>j
        <4> QED BY <3>1, <4>1 DEF c
      <3>2. CASE i # k
        <4>1. i \in 1..(k - 1)
          BY <1>k, <3>2
        <4>2. CASE \E x \in 1..n : cs[i] = p.final[x]
          <5>1. PICK x \in 1..n : cs[i] = p.final[x]
            BY <4>2
          <5>2. CASE x < j
            <6>1. x \in 1..(n + 1) /\ l[x] = p.final[x]
              BY <1>n, <2>2, <2>j, <5>2
            <6> QED BY <2>1, <2>2, <5>1, <6>1
          <5>3. CASE ~(x < j)
            <6>1. x + 1 \in 1..(n + 1) /\ ~(x + 1 < j) /\ x + 1 # j /\ (x + 1) - 1 = x
              BY <1>n, <2>j, <5>3
            <6>2. l[x + 1] = p.final[x]
              BY <2>2, <6>1
            <6> QED BY <2>1, <2>2, <5>1, <6>1, <6>2
          <5> QED BY <5>2, <5>3
        <4>3. CASE \E x \in 1..m : cs[i] = p.others[x]
          BY <2>1, <4>3 DEF m
        <4> QED BY <4>1, <4>2, <4>3 DEF Arranged, n, m
      <3> QED BY <3>1, <3>2
    <2>7. ASSUME NEW x \in 1..Len(q.final), NEW y \in 1..Len(q.final), x < y
          PROVE  Before(q.final[x], q.final[y], cs, names)
      <3>1. x \in 1..(n + 1) /\ y \in 1..(n + 1) /\ x \in Nat /\ y \in Nat
        BY <1>n, <2>1, <2>2
      <3>2. CASE y < j
        <4>1. x \in 1..n /\ y \in 1..n /\ x < j
          BY <1>n, <2>j, <2>7, <3>1, <3>2
        <4>2. l[x] = p.final[x] /\ l[y] = p.final[y]
          BY <2>2, <3>1, <3>2, <4>1
        <4> QED BY <2>1, <2>f, <2>7, <4>1, <4>2
      <3>3. CASE y = j
        <4>1. x \in 1..n /\ x < j
          BY <1>n, <2>j, <2>7, <3>1, <3>3
        <4>2. l[x] = p.final[x] /\ l[y] = c
          BY <2>2, <3>1, <3>3, <4>1
        <4>3. Rank(p.final[x], names) <= Rank(c, names)
          <5>1. ~(Rank(c, names) < Rank(p.final[x], names))
            BY <2>2, <2>f, <2>j, <4>1
          <5>2. Rank(c, names) \in Nat /\ Rank(p.final[x], names) \in Nat
            BY <2>f, <2>j, <4>1
          <5> QED BY <5>1, <5>2
        <4> QED BY <1>e, <2>1, <2>f, <2>j, <4>1, <4>2, <4>3
      <3>4. CASE y > j
        <4>1. y - 1 \in 1..n /\ ~(y < j) /\ y # j /\ j <= y - 1
          BY <1>n, <2>j, <3>1, <3>4
        <4>2. l[y] = p.final[y - 1]
          BY <2>2, <3>1, <4>1
        <4>3. CASE x < j
          <5>1. x \in 1..n /\ x < y - 1
            BY <1>n, <2>j, <3>1, <4>1, <4>3
          <5>2. l[x] = p.final[x]
            BY <2>2, <3>1, <4>3
          <5> QED BY <2>1, <2>f, <4>1, <4>2, <5>1, <5>2
        <4>4. CASE x = j
          <5>1. l[x] = c
            BY <2>2, <2>j, <3>1, <4>4
          <5>2. j \in 1..n
            BY <1>n, <2>j, <4>1
          <5>3. Rank(c, names) < Rank(p.final[j], names)
            BY <2>2, <2>f, <2>j, <5>2
          <5>4. Rank(p.final[j], names) <= Rank(p.final[y - 1], names)
            <6>1. CASE j = y - 1
              BY <2>f, <5>2, <6>1
            <6>2. CASE j < y - 1
              <7>1. Before(p.final[j], p.final[y - 1], cs, names)
                BY <2>f, <4>1, <5>2, <6>2
              <7>2. Rank(p.final[j], names) \in Nat /\ Rank(p.final[y - 1], names) \in Nat
                BY <2>f, <4>1, <5>2
              <7> QED BY <7>1, <7>2 DEF Before
            <6> QED BY <2>j, <3>1, <4>1, <6>1, <6>2
          <5>5. Rank(c, names) < Rank(p.final[y - 1], names)
            <6>1. Rank(c, names) \in Nat /\ Rank(p.final[j], names) \in Nat
                  /\ Rank(p.final[y - 1], names) \in Nat
              BY <2>f, <2>j, <4>1, <5>2
            <6> QED BY <5>3, <5>4, <6>1
          <5> QED BY <2>1, <4>2, <5>1, <5>5 DEF Before
        <4>5. CASE x > j
          <5>1. x - 1 \in 1..n /\ ~(x < j) /\ x # j /\ x - 1 < y - 1
            BY <1>n, <2>j, <2>7, <3>1, <4>5
          <5>2. l[x] = p.final[x - 1]
            BY <2>2, <3>1, <5>1
          <5> QED BY <2>1, <2>f, <4>1, <4>2, <5>1, <5>2
        <4> QED BY <2>j, <3>1, <4>3, <4>4, <4>5
      <3> QED BY <2>j, <3>1, <3>2, <3>3, <3>4
    <2>8. \A x, y \in 1..Len(q.others) : x < y => Before(q.others[x], q.others[y], cs, names)
      BY <2>1 DEF Arranged
    <2>9. Arranged(q, k, cs, names)
      BY <2>3, <2>4, <2>5, <2>6, <2>7, <2>8 DEF Arranged
    <2> QED BY <2>9 DEF q, places, c
  <1>2. CASE c.name \notin ToSet(names)
    <2> DEFINE l == Append(p.others, c)
    <2>1. q.final = p.final /\ q.others = l
      BY <1>2, <1>r DEF Added
    <2>2. /\ Len(l) = m + 1 /\ l[m + 1] = c
          /\ \A x \in 1..m : l[x] = p.others[x]
      BY <1>k, <1>n
    <2> HIDE DEF l, q, n, m, places, c
    <2>3. Len(q.final) + Len(q.others) = k
      BY <1>k, <1>n, <2>1, <2>2 DEF n
    <2>4. /\ \A x \in 1..n : p.final[x].name \in ToSet(names) /\ \E i \in 1..(k - 1) : p.final[x] = cs[i]
          /\ \A x \in 1..m : p.others[x].name \notin ToSet(names) /\ \E i \in 1..(k - 1) : p.others[x] = cs[i]
          /\ 1..(k - 1) \subseteq 1..k
      BY <1>k DEF Arranged, n, m
    <2>5. \A x \in 1..Len(q.final) :
            q.final[x].name \in ToSet(names) /\ \E i \in 1..k : q.final[x] = cs[i]
      BY <2>1, <2>4 DEF n
    <2>6. ASSUME NEW x \in 1..Len(q.others)
          PROVE  q.others[x].name \notin ToSet(names) /\ \E i \in 1..k : q.others[x] = cs[i]
      <3>1. x \in 1..(m + 1)
        BY <2>1, <2>2
      <3>2. CASE x = m + 1
        BY <1>2, <1>k, <2>1, <2>2, <3>2 DEF c
      <3>3. CASE x # m + 1
        <4>1. x \in 1..m
          BY <1>n, <3>1, <3>3
        <4> QED BY <2>1, <2>2, <2>4, <4>1
      <3> QED BY <3>2, <3>3
    <2>7. ASSUME NEW i \in 1..k
          PROVE  \/ \E x \in 1..Len(q.final) : cs[i] = q.final[x]
                 \/ \E x \in 1..Len(q.others) : cs[i] = q.others[x]
      <3>m. m + 1 \in 1..(m + 1) /\ 1..m \subseteq 1..(m + 1)
        BY <1>n
      <3>1. CASE i = k
        BY <2>1, <2>2, <3>1, <3>m DEF c
      <3>2. CASE i # k
        <4>1. i \in 1..(k - 1)
          BY <1>k, <3>2
        <4>2. (\E x \in 1..n : cs[i] = p.final[x]) \/ \E x \in 1..m : cs[i] = p.others[x]
          BY <4>1 DEF Arranged, n, m
        <4> QED BY <2>1, <2>2, <3>m, <4>2 DEF n
      <3> QED BY <3>1, <3>2
    <2>8. \A x, y \in 1..Len(q.final) : x < y => Before(q.final[x], q.final[y], cs, names)
      BY <2>1 DEF Arranged
    <2>9. ASSUME NEW x \in 1..Len(q.others), NEW y \in 1..Len(q.others), x < y
          PROVE  Before(q.others[x], q.others[y], cs, names)
      <3>1. x \in 1..m /\ y \in 1..(m + 1)
        BY <1>n, <2>1, <2>2, <2>9
      <3>2. CASE y = m + 1
        <4>1. Rank(p.others[x], names) = Len(names) + 1 /\ Rank(c, names) = Len(names) + 1
          BY <1>2, <1>r, <2>4, <3>1
        <4>2. Len(names) + 1 \in Nat /\ Len(names) + 1 <= Len(names) + 1
          BY <1>r
        <4>3. Before(p.others[x], c, cs, names)
          BY <1>e, <2>4, <3>1, <4>1, <4>2
        <4> QED BY <2>1, <2>2, <3>1, <3>2, <4>3
      <3>3. CASE y # m + 1
        <4>1. y \in 1..m
          BY <1>n, <3>1, <3>3
        <4> QED BY <2>1, <2>2, <2>9, <3>1, <4>1 DEF Arranged, m
      <3> QED BY <3>2, <3>3
    <2>10. Arranged(q, k, cs, names)
      BY <2>3, <2>5, <2>6, <2>7, <2>8, <2>9 DEF Arranged
    <2> QED BY <2>10 DEF q, places, c
  <1> QED BY <1>1, <1>2

(* What sort_components.py prints is in the order of the file, for any     *)
(* components and any file.                                                *)
LEMMA SortedRight ==
    ASSUME NEW cs, cs \in Seq(ToSet(cs)), \A i, j \in DOMAIN cs : cs[i] = cs[j] => i = j,
           NEW prio, prio.exists \in BOOLEAN, prio.names \in Seq(ToSet(prio.names))
    PROVE  RightOrder(component_dirs_sorted(cs, prio), cs, prio)
  <1> DEFINE C == ToSet(cs)
  <1>0. Len(cs) \in Nat /\ DOMAIN cs = 1..Len(cs)
    OBVIOUS
  <1>1. CASE prio.exists
    <2> DEFINE names == prio.names
               places == dict_order(names)
               f == Sorting(cs, places)
               n == Len(cs)
               p == f[n]
               r == p.final \o p.others
               S == {k \in Nat : k <= n => Arranged(f[k], k, cs, names)}
    <2>1. /\ f \in [0..n -> [final : Seq(C), others : Seq(C)]]
          /\ f[0] = [final |-> <<>>, others |-> <<>>]
          /\ \A k \in 1..n : f[k] = Added(cs[k], f[k - 1], places)
      BY SortingSteps
    <2>2. 0 \in S
      <3> DEFINE e == [final |-> <<>>, others |-> <<>>]
      <3>1. Len(e.final) = 0 /\ Len(e.others) = 0 /\ 1..0 = {}
        OBVIOUS
      <3> HIDE DEF e
      <3>2. Arranged(e, 0, cs, names)
        BY <3>1 DEF Arranged
      <3>3. f[0] = e
        BY <2>1 DEF e
      <3> HIDE DEF f, names, n
      <3> QED BY <3>2, <3>3
    <2>3. ASSUME NEW k \in S PROVE k + 1 \in S
      <3>0. k \in Nat
        OBVIOUS
      <3> SUFFICES ASSUME k + 1 <= n PROVE Arranged(f[k + 1], k + 1, cs, names)
        BY <3>0
      <3>1. k + 1 \in 1..n /\ (k + 1) - 1 = k /\ k \in 0..n
        BY <1>0, <3>0
      <3>2. Arranged(f[k], (k + 1) - 1, cs, names)
        BY <1>0, <3>0, <3>1
      <3>3. f[k] \in [final : Seq(ToSet(cs)), others : Seq(ToSet(cs))]
        BY <2>1, <3>1
      <3>4. f[k + 1] = Added(cs[k + 1], f[k], places)
        <4> HIDE DEF f, places, n, S
        <4> QED BY <2>1, <3>1
      <3>5. names \in Seq(ToSet(names)) /\ k + 1 \in 1..Len(cs)
        BY <3>1
      <3> HIDE DEF f, S, names, C
      <3> QED BY <3>2, <3>3, <3>4, <3>5, StepArranged
    <2>4. S = Nat
      <3>1. S \in SUBSET Nat
        OBVIOUS
      <3> HIDE DEF S
      <3> QED BY <2>2, <2>3, <3>1, Induct
    <2>5. Arranged(p, n, cs, names) /\ p \in [final : Seq(C), others : Seq(C)]
      <3>1. n \in S /\ n \in 0..n
        BY <1>0, <2>4
      <3> HIDE DEF f
      <3> QED BY <1>0, <2>1, <3>1
    <2>6. component_dirs_sorted(cs, prio) = r
      BY <1>1 DEF component_dirs_sorted, Sorted
    <2> DEFINE a == Len(p.final)
               b == Len(p.others)
    <2> HIDE DEF f, p, S, places
    <2>7. a \in Nat /\ b \in Nat /\ a + b = n /\ n \in Nat
      <3>1. p.final \in Seq(C) /\ p.others \in Seq(C) /\ a + b = n
        BY <2>5 DEF Arranged
      <3>2. a \in Nat /\ b \in Nat
        <4> HIDE DEF C
        <4> QED BY <3>1
      <3>3. n \in Nat
        BY <1>0
      <3> QED BY <3>1, <3>2, <3>3
    <2>8. /\ r \in Seq(C) /\ Len(r) = a + b /\ DOMAIN r = 1..n
          /\ \A x \in 1..n : r[x] = IF x <= a THEN p.final[x] ELSE p.others[x - a]
      <3>1. /\ r \in Seq(C) /\ Len(r) = a + b
            /\ \A x \in 1..(a + b) : r[x] = IF x <= a THEN p.final[x] ELSE p.others[x - a]
        BY <2>5, ConcatProperties
      <3>2. DOMAIN r = 1..Len(r)
        <4> HIDE DEF r, C
        <4> QED BY <3>1
      <3> HIDE DEF r, a, b, n
      <3> QED BY <2>7, <3>1, <3>2
    <2> HIDE DEF r, n, a, b, names
    <2>9. /\ \A x \in 1..a : p.final[x].name \in ToSet(names) /\ p.final[x] \in C
          /\ \A x \in 1..b : p.others[x].name \notin ToSet(names) /\ p.others[x] \in C
          /\ \A i \in 1..n : (\E x \in 1..a : cs[i] = p.final[x]) \/ (\E x \in 1..b : cs[i] = p.others[x])
          /\ \A x, y \in 1..a : x < y => Before(p.final[x], p.final[y], cs, names)
          /\ \A x, y \in 1..b : x < y => Before(p.others[x], p.others[y], cs, names)
      <3>1. p.final \in Seq(C) /\ p.others \in Seq(C)
        BY <2>5
      <3>2. (\A x \in 1..a : p.final[x] \in C) /\ (\A x \in 1..b : p.others[x] \in C)
        <4> HIDE DEF C
        <4> QED BY <3>1 DEF a, b
      <3> QED BY <2>5, <3>2 DEF Arranged, a, b
    <2>10. ToSet(r) = ToSet(cs)
      <3>1. ToSet(r) \subseteq C
        <4>1. ASSUME NEW x \in 1..n PROVE r[x] \in C
          <5>1. r \in Seq(C) /\ x \in 1..Len(r)
            BY <2>7, <2>8
          <5> HIDE DEF C
          <5> QED BY <5>1
        <4> HIDE DEF C
        <4> QED BY <2>8, <4>1 DEF ToSet
      <3>2. ASSUME NEW i \in 1..n PROVE \E x \in 1..n : r[x] = cs[i]
        <4>1. CASE \E x \in 1..a : cs[i] = p.final[x]
          <5>1. PICK x \in 1..a : cs[i] = p.final[x]
            BY <4>1
          <5>2. x \in 1..n /\ x <= a
            BY <2>7
          <5> QED BY <2>8, <5>1, <5>2
        <4>2. CASE \E x \in 1..b : cs[i] = p.others[x]
          <5>1. PICK x \in 1..b : cs[i] = p.others[x]
            BY <4>2
          <5>2. a + x \in 1..n /\ ~(a + x <= a) /\ (a + x) - a = x
            BY <2>7
          <5> QED BY <2>8, <5>1, <5>2
        <4> QED BY <2>9, <4>1, <4>2
      <3>3. C \subseteq ToSet(r)
        <4> SUFFICES ASSUME NEW c \in C PROVE c \in ToSet(r)
          OBVIOUS
        <4>1. PICK i \in 1..n : c = cs[i]
          BY <1>0 DEF ToSet, n
        <4> QED BY <2>8, <3>2, <4>1 DEF ToSet
      <3> QED BY <3>1, <3>3
    <2>r. \A c : /\ c.name \in ToSet(names) => Rank(c, names) \in 1..Len(names)
                 /\ c.name \notin ToSet(names) => Rank(c, names) = Len(names) + 1
      BY RanksAndPlaces DEF names
    <2>11. ASSUME NEW x \in 1..n, NEW y \in 1..n, x < y PROVE Before(r[x], r[y], cs, names)
      <3>0. x \in Nat /\ y \in Nat
        BY <2>7
      <3>1. CASE y <= a
        <4>1. x \in 1..a /\ y \in 1..a /\ x <= a
          BY <2>7, <2>11, <3>0, <3>1
        <4> QED BY <2>8, <2>9, <2>11, <3>1, <4>1
      <3>2. CASE x <= a /\ ~(y <= a)
        <4>1. x \in 1..a /\ y - a \in 1..b
          BY <2>7, <3>0, <3>2
        <4>2. r[x] = p.final[x] /\ r[y] = p.others[y - a]
          BY <2>8, <3>2
        <4>3. Rank(r[x], names) \in 1..Len(names) /\ Rank(r[y], names) = Len(names) + 1
          <5>1. p.final[x].name \in ToSet(names) /\ p.others[y - a].name \notin ToSet(names)
            BY <2>9, <4>1
          <5>2. r[x].name \in ToSet(names) /\ r[y].name \notin ToSet(names)
            BY <4>2, <5>1
          <5> QED BY <2>r, <5>2
        <4>4. Len(names) \in Nat
          BY DEF names
        <4>5. Rank(r[x], names) < Rank(r[y], names)
          BY <4>3, <4>4
        <4> QED BY <4>5 DEF Before
      <3>3. CASE ~(x <= a)
        <4>1. x - a \in 1..b /\ y - a \in 1..b /\ x - a < y - a /\ ~(y <= a)
          BY <2>7, <2>11, <3>0, <3>3
        <4>2. r[x] = p.others[x - a] /\ r[y] = p.others[y - a]
          BY <2>8, <3>3, <4>1
        <4> QED BY <2>9, <4>1, <4>2
      <3> QED BY <3>1, <3>2, <3>3
    <2>12. Len(r) = Len(cs)
      BY <2>7, <2>8 DEF n
    <2>13. \A x, y \in DOMAIN r : x < y => Before(r[x], r[y], cs, names)
      BY <2>8, <2>11
    <2> QED BY <1>1, <2>6, <2>10, <2>12, <2>13 DEF RightOrder, names
  <1>2. CASE ~prio.exists
    <2>1. component_dirs_sorted(cs, prio) = cs
      BY <1>2 DEF component_dirs_sorted
    <2>2. ASSUME NEW x \in DOMAIN cs, NEW y \in DOMAIN cs, x < y PROVE Before(cs[x], cs[y], cs, <<>>)
      <3>1. <<>> \in Seq(ToSet(<<>>)) /\ Len(<<>>) = 0 /\ ToSet(<<>>) = {}
        BY DEF ToSet
      <3>2. Place(cs[x], cs) = x /\ Place(cs[y], cs) = y
        BY <1>0, <3>1, RanksAndPlaces
      <3>3. Rank(cs[x], <<>>) = Rank(cs[y], <<>>)
        BY <3>1 DEF Rank
      <3> QED BY <2>2, <3>2, <3>3 DEF Before
    <2> QED BY <1>2, <2>1, <2>2 DEF RightOrder
  <1> QED BY <1>1, <1>2

-----------------------------------------------------------------------------
THEOREM Invariance == Spec => []IInv
  <1>1. IInv /\ [Next]_vars => IInv'
    BY TypeStep, RunningStep, UpToDateStep, SavedStep, ToolchainStep, BuiltStep, FlashedStep,
       OrderedStep DEF IInv
  <1> QED BY <1>1, IInvInit, PTL DEF Spec

(* The types of what the calls leave behind.                               *)
THEOREM TypeCorrect == Spec => []TypeOK
  <1>1. IInv => TypeOK
    BY DEF IInv
  <1> QED BY <1>1, Invariance, PTL

(* However calls of project.py follow each other, fail and are killed: a   *)
(* program is compiled with the configuration saved last, even if          *)
(* --toolchain has removed it since, and with the version of its tree; a   *)
(* configuration in place has the toolchain given last. The exceptions are *)
(* those that ToolchainOfConf, CompiledAsSaved and VersionOfTree name.     *)
THEOREM BuildIsRight == Spec => []BuildRight
  <1>1. IInv => ToolchainOfConf
    BY DEF IInv, WithToolchain, ToolchainOfConf
  <1>2. IInv => VersionOfTree
    <2> SUFFICES ASSUME TypeOK, Built, objs # NoObjs, Len(tree.tag) <= 1
                 PROVE  objs.version = <<VersionOf(tree)>>
      BY DEF IInv, VersionOfTree
    <2>1. tree.tag \in Seq(Part) /\ tree.n \in Nat /\ tree.dirty \in BOOLEAN
      BY ToolAssumption DEF TypeOK
    <2> QED BY <2>1, DescriptionRead DEF Built
  <1>3. IInv => BuildRight
    BY <1>1, <1>2 DEF IInv, Built, Saved, CompiledAsSaved, BuildRight
  <1> QED BY <1>3, Invariance, PTL

(* flash works with the arguments given last, each since it was given.     *)
THEOREM FlashIsAsAsked == Spec => []FlashAsAsked
  <1>1. IInv => FlashAsAsked
    BY DEF IInv, Flashed
  <1> QED BY <1>1, Invariance, PTL

(* The same, and: whatever components there are and whatever priority.conf *)
(* says, they are compiled in its order.                                   *)
THEOREM ToolsAreRight == Spec => []ToolsRight
  <1>1. IInv => (makefile # Absent => RightOrder(order.list, Components, order.by))
    <2> SUFFICES ASSUME Ordered, makefile # Absent
                 PROVE  RightOrder(order.list, Components, order.by)
      BY DEF IInv
    <2>1. PICK p \in Priorities : order = [list |-> component_dirs_sorted(Components, p), by |-> p]
      BY DEF Ordered
    <2>2. RightOrder(component_dirs_sorted(Components, p), Components, p)
      BY ComponentsAssumption, SortedRight
    <2> QED BY <2>1, <2>2
  <1>2. IInv => ToolsRight
    BY <1>1 DEF IInv, Flashed, ToolsRight
  <1> QED BY <1>2, Invariance, PTL
=============================================================================
