----------------------------- MODULE ProjectTool -----------------------------
(* project.py in the directory of a project, called again and again, with what it calls:   *)
(* cmake on compile.cmake, genconfig.py, make, update_build_info.py, sort_components.py    *)
(* and flash.py. Of cmake and make it matters when they run their parts again: make runs   *)
(* cmake first when global_config.cmake is gone or was written after the Makefile. A call  *)
(* may be killed before each of its steps. A configuration is the toolchain, of a path and   *)
(* a prefix, and one other value.                                                *)
EXTENDS BuildScripts

CONSTANTS
  Toolchains,    \* what --toolchain may give
  Paths,         \* those of them that exist,
  Directories,   \* and that are directories
  ToolPrefixes,  \* what --toolchain-prefix may give
  Edited,        \* the toolchains, as path and prefix, that menuconfig may set
  Values,        \* of the other symbol
  Value0,        \* its default
  DefaultFiles,  \* the files --config_file may name: the value in it, or Missing
  Trees,         \* the working trees, see BuildScripts
  Ports, Bauds,  \* what --port and --baudrate may give,
  Port0, Baud0,  \* and what they are if not given
  MaxCalls,      \* bound: the calls of project.py
  Components,    \* the component directories, as they are found
  Priorities     \* what compile/priority.conf may hold

Missing == "missing"
Given == {f \in DOMAIN DefaultFiles : DefaultFiles[f] # Missing}  \* the files that are there
None == ""
Toolchain == [path : Toolchains \cup {None}, prefix : ToolPrefixes \cup {None}]
NoToolchain == [path |-> None, prefix |-> None]
NoConf == [path |-> Missing, prefix |-> None]  \* instead of .config.mk,
Config == [tc : Toolchain, val : Values]
Absent == [tc |-> NoConf, val |-> Missing]     \* of a configuration, and
Emptied == [tc |-> NoToolchain, val |-> Value0]  \* what an empty file stands for
Commands == {"config", "build", "rebuild", "menuconfig", "clean", "distclean", "clean_conf", "flash"}

ASSUME ToolAssumption ==
  /\ Edited \subseteq Toolchain /\ Directories \subseteq Paths /\ Paths \subseteq Toolchains
  /\ {None, Missing} \cap (Toolchains \cup ToolPrefixes) = {}
  /\ Value0 \in Values /\ Missing \notin Values
  /\ \A f \in DOMAIN DefaultFiles : DefaultFiles[f] \in Values \cup {Missing}
  /\ \A t \in Trees : t.tag \in Seq(Part) /\ t.n \in Nat /\ t.dirty \in BOOLEAN
  /\ MaxCalls \in Nat
  /\ Port0 \notin Ports /\ Baud0 \notin Bauds /\ Missing \notin Ports \cup {Port0}

\* A directory is found once. The lists are sequences, of any members.
ASSUME ComponentsAssumption ==
  /\ Components \in Seq(ToSet(Components))
  /\ \A i, j \in DOMAIN Components : Components[i] = Components[j] => i = j
  /\ \A p \in Priorities : p.exists \in BOOLEAN /\ p.names \in Seq(ToSet(p.names))

VARIABLES
  pc, cmd,         \* the running call: where it is and its command
  calls,           \* the calls so far
  conf,            \* .config.mk: its toolchain, or NoConf
  mk, cmake, header, \* build/config/global_config.*, each Absent or a configuration
  makefile,        \* what the Makefile was made from: global_config.cmake
  order,           \* and the order of the components, with the priorities it follows
  newer,           \* global_config.cmake was written after the Makefile
  cached,          \* DEFAULT_CONFIG_FILE in the cache of cmake
  mem, gui,        \* the configuration a running genconfig.py has; --menuconfig
  time_h, version_h, \* build/config/global_build_info_*.h
  flash_conf,      \* .flash.conf.json
  tree,            \* the working tree
  \* what happened:
  objs,            \* what the last call has compiled a program with, or NoObjs
  saved,           \* the last configuration that global_config.mk had, since build/config was made
  split,           \* a call was killed between .config.mk and global_config.mk, or in one of them
  kept,            \* menuconfig saved another toolchain
  unsaved,         \* genconfig.py ended, or was killed, with global_config.cmake as it had
                   \* been before another configuration was saved
  asked, used      \* of flash: the arguments since clean_conf; the configuration it used

configVars == <<mk, cmake, header, newer>>
makeVars == <<makefile, order, cached>>
memVars == <<mem, gui>>
infoVars == <<time_h, version_h>>
flashVars == <<flash_conf, asked, used>>
ghostVars == <<saved, split, kept, unsaved>>
vars == <<pc, cmd, calls, conf, configVars, makeVars, memVars, infoVars, objs, flashVars, tree, ghostVars>>

NotAsked == [port |-> Port0, baud |-> Baud0]
NoFlash == [port |-> Missing, baud |-> Baud0]
NoObjs == [conf |-> Absent, header |-> Absent, version |-> <<>>]

Init ==
  /\ pc = "idle" /\ cmd = "none" /\ calls = 0
  /\ conf = NoConf
  /\ mk = Absent /\ cmake = Absent /\ header = Absent /\ newer = FALSE
  /\ makefile = Absent /\ order = [list |-> <<>>, by |-> [exists |-> FALSE, names |-> <<>>]] /\ cached \in Given
  /\ mem = Absent /\ gui = FALSE
  /\ time_h = <<>> /\ version_h = <<>>
  /\ objs = NoObjs
  /\ flash_conf = NoFlash /\ asked = NotAsked /\ used = NoFlash
  /\ tree \in Trees
  /\ saved = Absent /\ split = FALSE /\ kept = FALSE /\ unsaved = FALSE

-----------------------------------------------------------------------------
(* project.py: --toolchain and --toolchain-prefix come first, whatever the command. The     *)
(* file has what this call gives and nothing of the call before.                        *)
At(p, q) == pc = p /\ pc' = q /\ UNCHANGED <<cmd, calls>>
Exits(p) == pc = p /\ pc' = "idle" /\ cmd' = "none" /\ mem' = Absent /\ gui' = FALSE
            /\ UNCHANGED calls

Start ==
  /\ pc = "idle" /\ calls < MaxCalls /\ calls' = calls + 1
  /\ \E t \in Toolchain :
       \/ t.path \in Toolchains \ Paths /\ UNCHANGED <<pc, cmd, conf>>
       \/ /\ t.path \in Paths \cup {None} /\ t \notin {NoToolchain, conf}
          /\ conf' = t /\ pc' = "remove" /\ cmd' \in Commands
       \/ t \in {NoToolchain, conf} /\ pc' = "cmd" /\ cmd' \in Commands /\ UNCHANGED conf
  /\ objs' = NoObjs /\ used' = NoFlash
  /\ UNCHANGED <<configVars, makeVars, memVars, infoVars, flash_conf, asked, tree, ghostVars>>

\* The next cmake makes the configuration anew with the new toolchain. build with a Makefile
\* does not call it: it compiles with the old toolchain.
RemoveConfig_Not ==
  /\ At("remove", "cmd")
  /\ UNCHANGED <<conf, configVars, makeVars, memVars, infoVars, objs, flashVars, tree, ghostVars>>
RemoveConfig ==
  /\ At("remove", "cmd")
  /\ mk' = Absent /\ split' = FALSE /\ kept' = FALSE
  /\ UNCHANGED <<conf, cmake, header, newer, makeVars, memVars, infoVars, objs, flashVars, tree, saved, unsaved>>

\* config has nothing left to do; clean takes what was compiled before, which is not kept here.
ConfigOrClean ==
  /\ Exits("cmd") /\ cmd \in {"config", "clean"}
  /\ UNCHANGED <<conf, configVars, makeVars, infoVars, objs, flashVars, tree, ghostVars>>
Distclean ==
  /\ Exits("cmd") /\ cmd = "distclean"
  /\ mk' = Absent /\ cmake' = Absent /\ header' = Absent /\ newer' = FALSE
  /\ makefile' = Absent /\ time_h' = <<>> /\ version_h' = <<>>
  /\ saved' = Absent /\ split' = FALSE /\ kept' = FALSE
  /\ UNCHANGED <<conf, order, cached, objs, flashVars, tree, unsaved>>

\* The file of the defaults is looked for whenever cmake is called.
CallCmake ==
  \/ Exits("cmd") /\ Given # DOMAIN DefaultFiles /\ UNCHANGED cached
  \/ At("cmd", "genconfig") /\ cached' \in Given
     /\ UNCHANGED memVars
Build ==
  /\ cmd \in {"build", "rebuild"}
  /\ \/ cmd = "build" /\ makefile # Absent /\ At("cmd", "make") /\ UNCHANGED <<cached, memVars>>
     \/ (cmd = "rebuild" \/ makefile = Absent) /\ CallCmake
  /\ UNCHANGED <<conf, configVars, makefile, order, infoVars, objs, flashVars, tree, ghostVars>>

\* The test for a Makefile looks for it in build/build: there is none, cmake always runs.
Menuconfig ==
  /\ cmd = "menuconfig" /\ CallCmake
  /\ UNCHANGED <<conf, configVars, makefile, order, infoVars, objs, flashVars, tree, ghostVars>>

-----------------------------------------------------------------------------
(* genconfig.py, as compile.cmake calls it: the defaults are merged, .config.mk and then   *)
(* the file given, if there is no configuration yet.                               *)
Merged_NoConf == [tc |-> NoToolchain, val |-> DefaultFiles[cached]]
Wanted == IF conf = NoConf THEN NoToolchain ELSE conf
Merged == [tc |-> Wanted, val |-> DefaultFiles[cached]]
Load ==
  /\ At("genconfig", "write_config")
  /\ mem' = IF mk = Absent THEN Merged ELSE mk
  /\ gui' = FALSE
  /\ UNCHANGED <<conf, configVars, makeVars, infoVars, objs, flashVars, tree, ghostVars>>

WriteConfig ==
  /\ At("write_config", "write_cmake")
  /\ IF gui THEN UNCHANGED <<mk, saved>> ELSE mk' = mem /\ saved' = mem
  /\ UNCHANGED <<conf, cmake, header, newer, makeVars, memVars, infoVars, objs, flashVars, tree, split, kept, unsaved>>

\* The file is written only if it changes.
WriteCmake_NotGui ==
  /\ At("write_cmake", "write_header")
  /\ LET new == IF gui THEN cmake ELSE mem IN
     cmake' = new /\ newer' = (newer \/ cmake # new)
  /\ unsaved' = (gui /\ mk # mem /\ ~newer')
  /\ UNCHANGED <<conf, mk, header, makeVars, memVars, infoVars, objs, flashVars, tree, saved, split, kept>>
WriteCmake ==
  /\ At("write_cmake", "write_header")
  /\ cmake' = mem /\ newer' = (newer \/ cmake # mem)
  /\ unsaved' = (gui /\ mk # mem /\ ~newer')
  /\ UNCHANGED <<conf, mk, header, makeVars, memVars, infoVars, objs, flashVars, tree, saved, split, kept>>

WriteHeader ==
  /\ \/ gui /\ Exits("write_header")
     \/ ~gui /\ At("write_header", "generate") /\ UNCHANGED memVars
  /\ header' = mem
  /\ UNCHANGED <<conf, mk, cmake, newer, makeVars, infoVars, objs, flashVars, tree, ghostVars>>

\* compile.cmake goes on with global_config.cmake: the toolchain must be a directory.
Generate ==
  /\ \/ /\ cmake.tc.path \in Directories \cup {None}
        /\ At("generate", IF cmd = "menuconfig" THEN "gui" ELSE "make")
        /\ makefile' = cmake /\ newer' = FALSE /\ UNCHANGED memVars
        /\ \E p \in Priorities : order' = [list |-> component_dirs_sorted(Components, p), by |-> p]
     \/ Exits("generate") /\ UNCHANGED <<makefile, newer, order>>
  /\ UNCHANGED <<conf, mk, cmake, header, cached, infoVars, objs, flashVars, tree, ghostVars>>

\* make menuconfig: genconfig.py with what it has just written.
Edit ==
  /\ At("gui", "gui")
  /\ mem' \in [tc : Edited, val : Values]
  /\ UNCHANGED <<conf, configVars, makeVars, gui, infoVars, objs, flashVars, tree, ghostVars>>
Save ==
  /\ At("gui", "gui")
  /\ mk' = mem /\ saved' = mem /\ kept' = (kept \/ mem.tc # mk.tc)
  /\ UNCHANGED <<conf, cmake, header, newer, makeVars, memVars, infoVars, objs, flashVars, tree, split, unsaved>>
Leave ==
  /\ At("gui", "write_config")
  /\ gui' = TRUE
  /\ UNCHANGED <<conf, configVars, makeVars, mem, infoVars, objs, flashVars, tree, ghostVars>>

-----------------------------------------------------------------------------
(* make.                                                                   *)
Make_NotAgain ==
  /\ At("make", "info")
  /\ UNCHANGED <<conf, configVars, makeVars, memVars, infoVars, objs, flashVars, tree, ghostVars>>
Make ==
  /\ At("make", IF newer \/ cmake = Absent THEN "genconfig" ELSE "info")
  /\ UNCHANGED <<conf, configVars, makeVars, memVars, infoVars, objs, flashVars, tree, ghostVars>>

UpdateBuildInfo ==
  /\ At("info", "compile")
  /\ time_h' = append_time_info(time_h, time_define)
  /\ version_h' = append_time_info(version_h, git_define(describe(tree)))
  /\ UNCHANGED <<conf, configVars, makeVars, memVars, objs, flashVars, tree, ghostVars>>

Compile ==
  /\ Exits("compile")
  /\ \/ objs' = [conf |-> makefile, header |-> header, version |-> version_h]
     \/ UNCHANGED objs
  /\ UNCHANGED <<conf, configVars, makeVars, infoVars, flashVars, tree, ghostVars>>

-----------------------------------------------------------------------------
(* flash.py: an argument that is not the default is remembered.                       *)
Updated_Args(config, args) == args
Updated(config, args) ==
  LET old == IF config = NoFlash THEN NotAsked ELSE config
  IN [port |-> IF args.port # Port0 THEN args.port ELSE old.port,
      baud |-> IF args.baud # Baud0 THEN args.baud ELSE old.baud]
Flash ==
  /\ Exits("cmd") /\ cmd = "flash"
  /\ \E args \in [port : Ports \cup {Port0}, baud : Bauds \cup {Baud0}] :
       /\ flash_conf' = Updated(flash_conf, args)
       /\ used' = flash_conf'
       /\ asked' = [port |-> IF args.port \in Ports THEN args.port ELSE asked.port,
                    baud |-> IF args.baud \in Bauds THEN args.baud ELSE asked.baud]
  /\ UNCHANGED <<conf, configVars, makeVars, infoVars, objs, tree, ghostVars>>

\* clean_conf removes .config.mk, build/config, and lets flash.py remove its file and exit.
RemoveDotConfig ==
  /\ At("cmd", "rmtree") /\ cmd = "clean_conf"
  /\ conf' = NoConf
  /\ UNCHANGED <<configVars, makeVars, memVars, infoVars, objs, flashVars, tree, ghostVars>>
RemoveConfigDir ==
  /\ At("rmtree", "flash_clean")
  /\ mk' = Absent /\ cmake' = Absent /\ header' = Absent
  /\ time_h' = <<>> /\ version_h' = <<>>
  /\ saved' = Absent /\ split' = FALSE /\ kept' = FALSE
  /\ UNCHANGED <<conf, newer, makeVars, memVars, objs, flashVars, tree, unsaved>>
CleanFlash_Kept ==
  /\ Exits("flash_clean")
  /\ asked' = NotAsked
  /\ UNCHANGED <<conf, configVars, makeVars, infoVars, objs, flash_conf, used, tree, ghostVars>>
CleanFlash ==
  /\ Exits("flash_clean")
  /\ flash_conf' = NoFlash /\ asked' = NotAsked
  /\ UNCHANGED <<conf, configVars, makeVars, infoVars, objs, used, tree, ghostVars>>

-----------------------------------------------------------------------------
\* A file that is being written is emptied first; menuconfig first renames the old one.
Kill ==
  /\ pc # "idle" /\ Exits(pc)
  /\ \/ UNCHANGED mk
     \/ pc = "write_config" /\ ~gui /\ mk # mem /\ mk' = Emptied
     \/ pc = "gui" /\ mk # mem /\ mk' \in {Absent, Emptied}
  /\ saved' = IF mk' = Absent THEN saved ELSE mk'
  /\ split' = IF mk' = Absent THEN FALSE ELSE split \/ pc \in {"remove", "rmtree"} \/ mk' # mk
  /\ kept' = (kept /\ mk' # Absent)
  /\ unsaved' = (unsaved \/ (pc \in {"gui", "write_config", "write_cmake"} /\ saved' # cmake))
  /\ UNCHANGED <<conf, cmake, header, newer, makeVars, infoVars, objs, flashVars, tree>>

\* The sources change between two calls.
Commit ==
  /\ pc = "idle" /\ tree' \in Trees /\ objs' = NoObjs
  /\ UNCHANGED <<pc, cmd, calls, conf, configVars, makeVars, memVars, infoVars, flashVars, ghostVars>>

project == Start \/ RemoveConfig \/ ConfigOrClean \/ Distclean \/ Build \/ Menuconfig
clean_conf == RemoveDotConfig \/ RemoveConfigDir \/ CleanFlash
genconfig == Load \/ WriteConfig \/ WriteCmake \/ WriteHeader \/ Edit \/ Save \/ Leave
make == Generate \/ Make \/ UpdateBuildInfo \/ Compile
Next == project \/ clean_conf \/ genconfig \/ make \/ Flash \/ Kill \/ Commit
Spec == Init /\ [][Next]_vars

-----------------------------------------------------------------------------
TypeOK ==
  /\ pc \in {"idle", "remove", "cmd", "genconfig", "write_config", "write_cmake", "write_header",
             "generate", "gui", "make", "info", "compile", "rmtree", "flash_clean"}
  /\ cmd \in Commands \cup {"none"} /\ calls \in 0..MaxCalls
  /\ conf \in Toolchain \cup {NoConf}
  /\ {mk, cmake, header, makefile, mem, saved} \subseteq Config \cup {Absent}
  /\ cached \in Given
  /\ {newer, gui, split, kept, unsaved} \subseteq BOOLEAN
  /\ tree \in Trees
  /\ flash_conf \in [port : Ports \cup {Port0}, baud : Bauds \cup {Baud0}] \cup {NoFlash}

\* Once a call has ended, a configuration that is there has the toolchain of .config.mk, which
\* is what was given last. Excepted are a menuconfig that saved another toolchain and a call
\* killed between the two files, or in one of them, after which nothing removes the old one.
ToolchainOfConf == pc = "idle" /\ mk # Absent /\ ~split /\ ~kept => mk.tc = Wanted

\* A program is compiled, and its Makefile made, with the configuration that was saved last,
\* also when menuconfig was left with other values, cmake failed before, or a call was killed
\* (excepted is what unsaved says). It is the last one when --toolchain has just removed it,
\* too: build with a Makefile compiles with the old toolchain, and what is compiled has the
\* new one only if global_config.mk is there again.
CompiledAsSaved ==
  /\ mk # Absent => mk = saved
  /\ objs # NoObjs /\ ~unsaved => objs.conf = saved /\ objs.header = saved

\* It has the version of the tree it was compiled from, once. Excepted is a tag with a dash.
VersionOfTree == objs # NoObjs /\ Len(tree.tag) <= 1 => objs.version = <<VersionOf(tree)>>

\* What project.py builds has the configuration saved last and the version of its tree, and a
\* configuration that is saved the toolchain given last, each with its exceptions.
BuildRight == TypeOK /\ ToolchainOfConf /\ CompiledAsSaved /\ VersionOfTree

\* flash works with the arguments given last, each since it was given, and the components
\* are compiled in the order of the priorities.
FlashAsAsked == used # NoFlash => used = asked
ToolsRight ==
  /\ FlashAsAsked
  /\ makefile # Absent => RightOrder(order.list, Components, order.by)
=============================================================================
