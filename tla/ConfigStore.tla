---------------------------- MODULE ConfigStore ----------------------------
(* The files of a directory under the command line tools of Kconfiglib. A tool starts    *)
(* with values for the symbols, wherever it has them from (KconfigFiles says how it       *)
(* comes by them), and writes its files one system call after another. Between the       *)
(* tools the user edits .config and the Kconfig files and builds the project; a tool      *)
(* may be killed between any two system calls. (Two tools at once, or an editor during     *)
(* a tool, are left out.)                                                     *)
EXTENDS ConfigLines

CONSTANTS
  Trees,         \* the Kconfig files, one version after the other (ConfigLines)
  HandWritten,   \* the configurations a user writes by hand
  Fragments,     \* the files the user keeps: defaults, fragments, all*.config
  Cuts(_),       \* how many of so many lines may be there when their writer is killed
  MaxRuns, MaxEvents   \* bounds: tools, and edits and crashes together

Outputs == {".config", ".config.old", "merged", "merged.old", "min", "autoconf.h", "auto.conf"}
OldOf(f) == IF f = ".config" THEN ".config.old" ELSE "merged.old"
Names == UNION {Trees[t].known : t \in DOMAIN Trees}

\* The values of the model do not tell the number 0 from n, so a symbol does not turn
\* from one into the other; everything else may change from version to version.
ASSUME StoreAssumption ==
  /\ Trees # <<>> /\ DOMAIN Trees = 1..Len(Trees) /\ MaxRuns \in Nat /\ MaxEvents \in Nat
  /\ \A t \in DOMAIN Trees : Trees[t].order \in Seq(Trees[t].known)
  /\ "absent" \notin Names /\ Absent \notin HandWritten
  /\ DOMAIN Fragments \cap Outputs = {}
  /\ \A t, u \in DOMAIN Trees : \A i \in ToSet(Trees[t].order) \cap ToSet(Trees[u].order) :
       IsTri(Trees[t], i) = IsTri(Trees[u], i)

VARIABLES
  tree,          \* which version of the Kconfig files is there
  files,         \* the contents of each file
  proc,          \* the tool that runs: its values, and the calls it has still to make
  touched,       \* the symbols whose dependency file is newer than the objects
  compiled,      \* what the objects were compiled with: a header, or Absent
  synced,        \* the tool that was run last was genconfig, and it ended
  runs, events,  \* counted against the bounds
  \* Ghosts: the last complete .config; the files a crash has left incomplete; an
  \* incomplete .config was saved as .config.old, and no complete one written since; a
  \* complete one could not be saved; sync_deps read an incomplete file.
  saved, torn, lost, unsaved, blind
ghosts == <<saved, torn, lost, unsaved, blind>>
storeVars == <<tree, files, proc, touched, compiled, synced, runs, events, ghosts>>

Idle == [tool |-> "none", vals |-> <<>>, todo |-> <<>>]
Running == proc # Idle

\* What a header says of each symbol, None when it does not mention it.
Header == [i \in Names |-> OldVal(i, files["autoconf.h"])]

\* A fresh directory, or one whose .config was built, as genconfig and Build leave it,
\* and edited since.
Fresh(config) ==
  [f \in Outputs \cup DOMAIN Fragments |->
     IF f \in DOMAIN Fragments THEN Fragments[f] ELSE IF f = ".config" THEN config ELSE Absent]
Built(vals, later) ==
  [Fresh(later) EXCEPT !["autoconf.h"] = autoconf_lines(Trees[1], vals),
                       !["auto.conf"] = old_vals_lines(Trees[1], vals)]

InitFresh == files = Fresh(Absent) /\ compiled = Absent
InitBuilt(vals, later) == files = Built(vals, later) /\ compiled = Header
InitRest ==
  /\ tree = 1 /\ proc = Idle /\ touched = {} /\ synced = FALSE
  /\ runs = 0 /\ events = 0
  /\ saved = files[".config"] /\ torn = {} /\ lost = FALSE /\ unsaved = FALSE /\ blind = FALSE

ValsOf(t) == [ToSet(t.order) -> Int \X BOOLEAN]
StoreInit ==
  /\ InitFresh \/ \E vals \in ValsOf(Trees[1]), later \in HandWritten : InitBuilt(vals, later)
  /\ InitRest

---------------------------------------------------------------------------
(* The system calls a tool makes: what is left to do is proc.todo.               *)

\* _write_if_changed(): nothing at all when the contents are the same.
_contents_eq(f, contents) == files[f] = contents
_write_if_changed(f, contents) ==
  IF _contents_eq(f, contents) THEN <<>>
  ELSE << <<"open", f>>, <<"fill", f, contents>> >>

\* The tool goes on when the old file cannot be renamed.
_save_old(f) == << <<"rename", f>> >>
Outcomes(op) == IF op[1] = "rename" /\ files[op[2]] # Absent THEN {op, <<"failed", op[2]>>} ELSE {op}

write_config_NoOld(f, vals) == _write_if_changed(f, config_lines(Trees[tree], vals))
write_config(f, vals) ==
  LET contents == config_lines(Trees[tree], vals)
  IN IF _contents_eq(f, contents) THEN <<>>
     ELSE _save_old(f) \o _write_if_changed(f, contents)

write_min_config(vals, syms) == _write_if_changed("min", LinesOf(Trees[tree], vals, syms))
write_autoconf(vals) == _write_if_changed("autoconf.h", autoconf_lines(Trees[tree], vals))

_touch(names) == IF names = <<>> THEN <<>> ELSE << <<"touch", names>> >>
_write_old_vals(vals) == _write_if_changed("auto.conf", old_vals_lines(Trees[tree], vals))
OldVals == IF files["auto.conf"] = Absent THEN <<>> ELSE files["auto.conf"]
sync_deps_WriteFirst(vals) ==
  _write_old_vals(vals) \o _touch(ToTouch(Trees[tree], OldVals, vals))
sync_deps(vals) ==
  _touch(ToTouch(Trees[tree], OldVals, vals)) \o _write_old_vals(vals)

Apply(op) ==
  CASE op[1] = "rename" ->
         IF files[op[2]] = Absent THEN files
         ELSE [files EXCEPT ![op[2]] = Absent, ![OldOf(op[2])] = files[op[2]]]
    [] op[1] = "open" -> [files EXCEPT ![op[2]] = <<>>]
    [] op[1] = "fill" -> [files EXCEPT ![op[2]] = op[3]]
    [] OTHER -> files

\* The files a step leaves incomplete, and those it completes.
TornAfter(op) ==
  CASE op[1] = "open" -> torn \cup {op[2]}
    [] op[1] \in {"fill", "rename"} -> torn \ {op[2]}
    [] OTHER -> torn

\* Whether an incomplete .config has replaced the old one, and whether the complete one
\* is the only copy.
LostAfter(op) ==
  CASE op = <<"rename", ".config">> -> lost \/ ".config" \in torn
    [] op[1] = "fill" /\ op[2] = ".config" -> FALSE
    [] OTHER -> lost
UnsavedAfter(op) ==
  CASE op[1] \in {"rename", "fill"} /\ op[2] = ".config" -> FALSE
    [] op = <<"failed", ".config">> -> unsaved \/ ".config" \notin torn
    [] OTHER -> unsaved

Call ==
  /\ Running /\ proc.todo # <<>>
  /\ \E op \in Outcomes(Head(proc.todo)) :
       /\ files' = Apply(op)
       /\ touched' = IF op[1] = "touch" THEN touched \cup ToSet(op[2]) ELSE touched
       /\ torn' = TornAfter(op)
       /\ saved' = IF op[1] = "fill" /\ op[2] = ".config" THEN op[3] ELSE saved
       /\ lost' = LostAfter(op) /\ unsaved' = UnsavedAfter(op)
  /\ proc' = [proc EXCEPT !.todo = Tail(@)]
  /\ UNCHANGED <<tree, compiled, synced, runs, events, blind>>

Exit ==
  /\ Running /\ proc.todo = <<>>
  /\ proc' = Idle /\ synced' = (proc.tool = "genconfig")
  /\ UNCHANGED <<tree, files, touched, compiled, runs, events, ghosts>>

\* A tool is killed: a file it was writing may hold the first part of its lines, and
\* of the files it was touching the first ones are new.
Crash ==
  /\ Running /\ events < MaxEvents /\ events' = events + 1
  /\ proc' = Idle
  /\ LET op == IF proc.todo = <<>> THEN <<"none">> ELSE Head(proc.todo) IN
       /\ IF op[1] # "fill" THEN files' = files
          ELSE \E n \in Cuts(Len(op[3])) : files' = [files EXCEPT ![op[2]] = SubSeq(op[3], 1, n)]
       /\ IF op[1] # "touch" THEN touched' = touched
          ELSE \E n \in Cuts(Len(op[2])) : touched' = touched \cup ToSet(SubSeq(op[2], 1, n))
  /\ UNCHANGED <<tree, compiled, synced, runs, ghosts>>

---------------------------------------------------------------------------
(* What the tools write.                                                     *)

Start(tool, vals, todo) ==
  /\ ~Running /\ runs < MaxRuns /\ runs' = runs + 1
  /\ proc' = [tool |-> tool, vals |-> vals, todo |-> todo]
  /\ synced' = FALSE
  /\ UNCHANGED <<tree, files, touched, compiled, events, saved, torn, lost, unsaved>>

SaveAs(tool, f, vals) == Start(tool, vals, write_config(f, vals)) /\ UNCHANGED blind

SaveMin(vals, syms) ==
  Start("savedefconfig", vals, write_min_config(vals, syms)) /\ UNCHANGED blind

\* genconfig.py --sync-deps; --config-out only adds a copy without a backup.
Sync(vals) ==
  /\ Start("genconfig", vals, write_autoconf(vals) \o sync_deps(vals))
  /\ blind' = (blind \/ "auto.conf" \in torn)

\* oldconfig.py asks first, and writes when it knows the values.
Ask == Start("oldconfig", <<>>, <<>>) /\ UNCHANGED blind
Asked(vals) ==
  /\ proc.tool = "oldconfig" /\ proc.todo = <<>>
  /\ proc' = [proc EXCEPT !.vals = vals, !.todo = write_config(".config", vals)]
  /\ UNCHANGED <<tree, files, touched, compiled, synced, runs, events, ghosts>>

Savers == {"olddefconfig", "defconfig", "alldefconfig", "allnoconfig", "allyesconfig",
           "allmodconfig", "allnoconfig_walk", "setconfig", "merge_config"}

---------------------------------------------------------------------------
(* The user, and the build.                                                 *)

Editing == ~Running /\ events < MaxEvents /\ events' = events + 1 /\ synced' = FALSE

EditConfig ==
  /\ Editing
  /\ \E c \in HandWritten \ {saved} : files' = [files EXCEPT ![".config"] = c] /\ saved' = c
  /\ torn' = torn \ {".config"}
  /\ UNCHANGED <<tree, proc, touched, compiled, runs, lost, unsaved, blind>>

EditKconfig ==
  /\ Editing
  /\ tree < Len(Trees) /\ tree' = tree + 1
  /\ UNCHANGED <<files, proc, touched, compiled, runs, ghosts>>

\* make, after genconfig: what uses a symbol whose file was touched is compiled
\* again, and everything the first time.
Build ==
  /\ ~Running /\ synced
  /\ compiled' = [i \in Names |-> IF compiled = Absent \/ i \in touched THEN Header[i]
                                  ELSE compiled[i]]
  /\ touched' = {} /\ synced' = FALSE
  /\ UNCHANGED <<tree, files, proc, runs, events, ghosts>>

\* A tool may come to any values.
StoreNext ==
  \/ \E vals \in ValsOf(Trees[tree]) :
       \/ \E tool \in Savers, f \in {".config", "merged"} : SaveAs(tool, f, vals)
       \/ \E syms \in SUBSET ToSet(Trees[tree].order) : SaveMin(vals, syms)
       \/ Sync(vals)
       \/ Asked(vals)
  \/ Ask \/ Call \/ Exit \/ Crash \/ EditConfig \/ EditKconfig \/ Build

StoreSpec == StoreInit /\ [][StoreNext]_storeVars

---------------------------------------------------------------------------
(* What the files promise.                                                  *)

\* Kept: whatever happens to a tool, the last complete configuration is in .config or
\* in .config.old. It is lost when another tool saves an incomplete .config as the old
\* one, and when a write that could not save the old one is not completed: write_config()
\* says of the first copy that "errors are silently ignored", and truncates the only one.
Kept ==
  \/ saved \in {files[".config"], files[".config.old"]}
  \/ lost
  \/ unsaved /\ ".config" \in torn

\* DepTouched: after genconfig --sync-deps a symbol whose value in the header is not the
\* one the objects were compiled with has a new dependency file, also when earlier runs
\* were killed before auto.conf was written ("can be safely rerun if it fails before
\* this point"). Not so for a symbol that was taken out of the Kconfig files while an
\* expression still named it, nor after sync_deps has read an incomplete auto.conf.
StillNamed ==
  {i \in Names : \E t \in 1..tree, u \in 1..tree :
     /\ t < u /\ i \in ToSet(Trees[t].order)
     /\ i \in Trees[u].known \ ToSet(Trees[u].order)}
DepTouched ==
  synced /\ compiled # Absent =>
    \/ blind
    \/ \A i \in Names \ (touched \cup StillNamed) : compiled[i] = Header[i]
=============================================================================
