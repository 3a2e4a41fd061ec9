# Maix-Speech: a TLA+ model

Maix-Speech is an offline speech recogniser for small Linux boards. The
recogniser itself is a binary library (`components/asr_lib/lib`). The sources
of this repository are the demo program around it (`projects/maix_asr`), its
helpers (`components/utils`), the tool that configures, builds and flashes it
(`tools/cmake`, `tools/flash`, `tools/kconfig`), and the Kconfig library with
its front ends that this tool drives (`tools/kconfig/Kconfiglib`). This
directory models all of these: how the program drives and closes the library
and what it shows and writes down; how a call of the tool leaves its files, and
what the next call makes of them; how Kconfig files are read, how values are
computed, cached, set, saved and loaded, and how they are shown to a user.

Paths below are relative to `src/`. `main.cpp` is
`projects/maix_asr/main/src/main.cpp`, the other C files are in
`components/utils/src/`, `kconfiglib.py`, `menuconfig.py` and `guiconfig.py` in
`tools/kconfig/Kconfiglib/`.

## 1. The parts of the system

| Part | State | Operations | Hard behaviour | Modules |
|---|---|---|---|---|
| main (`main.cpp`) | `exit_flag`, `opts`, `keys_fd`, `font_buf`, the library's state | start-up, `set_dig/kws/lvcsr`, the loop, `free_decoder` | SIGINT between any two calls; a failure half way through start-up; the order of the library's calls | `MaixAsr` |
| screen (`main.cpp`, `fb_display.c`) | `lcd_buf`, the framebuffer | `lcd_clear`, `lcd_clear1`, titles, callbacks | partial flushes: buffer and framebuffer differ below the rows flushed | `LcdScreen` |
| keys (`main.cpp`) | a descriptor, the kernel's queue | `key_init`, `key_read`, `key_deinit` | a 1 ms timeout against an arriving event; EINTR; one event a frame | `MaixAsr` |
| fonts (`font.c`) | `font_buf` by size | `font_reg`, `font_unreg`, `font_draw` | line breaks of mixed widths, clipping, a read pointer moved in two places | `FontDraw`, `MaixAsr` |
| configuration (`opts.c`) | `opts` | `parse_opts` | what a line means depends on the lines before it | `ParseOpts` |
| test bench (`benchmark.c`) | static texts, two result files | `benchmark` | texts of two files in one buffer; SIGINT half way; files that do not open | `Benchmark` |
| language model bench (`lm_benchmark.c`) | static rows and text, a result file | `lm_benchmark` | padding to chunks; stale rows and texts | `LmBenchmark` |
| ASR library (`ms_asr.h`) | a binary | `ms_asr_*` | the order of calls | `AsrProtocol` (external) |
| project tool (`tools/cmake/project.py`, `compile.cmake`, `tools/kconfig/genconfig.py`, `tools/flash/flash.py`) | `.config.mk`, `build/`, `.flash.conf.json` | config, menuconfig, build, rebuild, clean, distclean, clean_conf, flash | calls that fail or are killed, and what later calls take for up to date | `ProjectTool`, `BuildScripts` |
| Kconfiglib, reading | macros, tokens, the stack of files, the menu tree | the constructor of `Kconfig` | lines read ahead, macros within text, a tree relinked while dependencies go down it, the search for loops | `KconfigText`, `KconfigLine`, `KconfigParse`, `KconfigTree` |
| Kconfiglib, values | user values, the cached values | values, `set_value`, `unset_value` | an invalidation that stops early | `KconfigEval`, `KconfigValues`, `DepCache`, `DepGraph` |
| Kconfiglib, files and tools | `.config`, `auto.conf`, headers, dependency files | `load_config`, `write_*`, `sync_deps`; `oldconfig.py` and the rest | a tool killed between two system calls; what is written must mean the same when read | `KconfigConfig`, `ConfigLines`, `ConfigStore`, `KconfigFiles` |
| `menuconfig.py` | the menu shown, cursor, scroll, rows of the menus above | keys, resizes, loads, saves, jumps | a change of a value takes away what the cursor is on | `Menuconfig`, `KconfigMenu`, `ScrollList`, `ScrollOffset`, `EditBox` |
| `guiconfig.py` | the globals, and the Treeview's own state | clicks and keys, two modes, the jump-to dialog | a tree filled lazily, a dialog that changes values behind it | `Guiconfig`, `JumpDialog` |

How they interact. `main` is one thread. It calls `parse_opts`, `font_reg` and
`lcd_init`; then either one of the benches, which takes over until it returns,
or it opens the library, registers up to four decoders and loops: one frame
with `ms_asr_run`, one key event with `key_read`. A decoder's result comes as a
callback inside `ms_asr_run`; the callback draws with `font_draw` into
`lcd_buf` and copies rows to the framebuffer with `fb_display`. `my_handler`
(SIGINT) sets `exit_flag`, which the loop and both benches read. There is no
lock and no second thread.

`project.py` writes `.config.mk` and calls cmake, make and `flash.py` as
processes; cmake calls `genconfig.py`, which merges the configurations with
Kconfiglib, lets the user change them in `menuconfig.py` and writes three files;
make calls cmake again when one of them is newer than the Makefile, and
`update_build_info.py` before it compiles. They share nothing but these files,
and the user may stop any of them with Ctrl-C at any moment. The tools of
Kconfiglib share `.config` and the files next to it in the same way.

What makes each part correct, and what `PROJECT.json` lists as hazards at their
lines: `main` keeps to the library's protocol and gives back what it acquired on
every path but those of a bench; a partial flush never hides or mixes texts; a line of a result file is the whole result of its
own input; a signal ends the program and a key press is served. What is compiled
has the configuration saved last. A tree of menus says what the lines say; no
value is computed from a stale one; a configuration written is the one read
back, and one complete configuration is left whatever is killed; a front end
shows the values there are, and does not end with an exception and the user's
changes. Where the code does not keep to this, section 4 says so.

## 2. The modules and the code

Names of the source are kept: an action or operator is named after the function
it models, a variable after the variable. `PROJECT.json` gives the lines of each
definition. An operator whose name has a suffix behind an underscore
(`LcdClear1_FiveBands`) is a plausible wrong version of the operator after it;
no specification uses it: it serves to check that a property can fail. The
modules `MC*` give the constants their values; `*Proofs` hold the theorems.

    AsrProtocol <-- implemented by -- MaixAsr, Benchmark, LmBenchmark
    LcdScreen   <-- extended and implemented by -- MaixAsr
    ScrollList  <-- implemented by -- Menuconfig, JumpDialog
    DepCache    <-- implemented by -- KconfigValues
    KconfigTree <- KconfigText <- KconfigLine <- KconfigParse
    ConfigLines <- KconfigEval <- KconfigConfig <- KconfigMenu <- Menuconfig, Guiconfig
    ConfigLines <- ConfigStore <- KconfigFiles, whose steps are those of ConfigStore with their values
    BuildScripts <- ProjectTool

### The program

**AsrProtocol** is external: the header of the library gives prototypes and no
rules, so the contract is put together from what the calls do (`usage_zh.md`) and
from how the programs use their results: opened once and closed once, everything
else in between; `ms_asr_kws_reg_similar` and the run of given syllables only
with their decoder; nothing run after the source has run out, or could not be
set, until one is set. A source may be set at any time, and clears what was
heard of the one before (`usage_zh.md:246`).

**LcdScreen** is the screen in bands of 32 rows, in which every routine of
`main.cpp` works. `LCD_H` = 240 is seven and a half bands; the half one holds no
text. A band shows black, a decoder's text, or what was there before. The buffer
has 3 bytes a pixel, as `lcd_init` chooses without a framebuffer of 32 bits. Both flushes of
`lcd_clear` and `lcd_clear1` are one step: nothing can run between them.

**MaixAsr** is `main` from the signal handler to the exit status; `pc` is the
next call. Beside the thread run `Signal` (enabled until the program has ended)
and `KeyEvent`. `MsAsrRun` fills `due` with any of the registered decoders,
`RunCallback` serves them one by one, and `CallbackCrashes` is the one that dies:
of a missing font, or of a digit result that is longer than `digit_res1`. Every
call that can fail has both outcomes. With a bench main ends when it returns
(`Benchmarks`). The part of the loop that `#if 1 .. #else` leaves out is not modelled.

**FontDraw** is one call of `font_draw`, a step per character, with the C string
as byte classes and a read pointer. The pixels of a glyph are its rectangle.

**ParseOpts** is `parse_opts` line by line, with the dump that indexes
`device_type_str` and the final check. Options fall in classes treated alike.

**Benchmark** is `benchmark` with its callbacks. A text is the sequence of the
frames it was recognised from, so that it can be traced to its file. `trave_dir`
is one step that yields some list; that it names a file once is `ListAssumption`.
`SetDev` clears what the library has heard, as `ms_asr_set_dev` does.

**LmBenchmark** is `lm_benchmark` with the reading of its text. A row of
probabilities is the place of the syllable it stands for, `pnyp_list` the static
array with what earlier sentences left in it. The text is not terminated in
memory: `Rubbish` is what may be read behind it.

### The project tool

**ProjectTool** is the directory of a project and `project.py` called in it
again and again, each call a sequence of steps at `pc` that may fail, or be
killed before any step. `conf` is `.config.mk`; `mk`, `cmake` and `header` are
the three files of `genconfig.py`, written one after the other, each emptied
before it is written. A configuration is the toolchain, which is a path and a
prefix, and one more value. Of
cmake and make it is modelled when they run their parts again, with ideal
timestamps; which compiler an existing cache of cmake keeps is cmake's affair.
The removal of a directory is one step. `objs`, `saved`, `split`, `kept`,
`unsaved`, `asked` and `used` are history variables.

**BuildScripts** has the parsing of git's description and the two headers of
`update_build_info.py`, and the order of the components.

### Kconfiglib

**KconfigText** and **KconfigLine** read the text of a line. A text is a
sequence of atoms, the pieces that the regular expressions of the tokenizer tell
apart. Macros are expanded in place and inside out (`_expand_macro`), tokens
parsed into expressions, lines into records of a keyword and its operands; and
nodes and expressions are printed as text again. What shell commands print and
the environment holds are constants. **KconfigParse** is the constructor:
`_next_line` reads a line into `line`, and each thing `_parse_block` and
`_parse_properties` do with it is an action, which takes the line or leaves it
to another; beside it the stack of files and the errors. A line is given as a
text, or as the record its text means. **KconfigTree** is what follows: dependencies go
down the tree, implicit menus are made, ifs are removed, loops are searched.
String constants have the value 3, which is none of n, m and y; unnamed choices
have an item; the warnings are left out. A property where it does not belong ends
the constructor, some with a `KconfigError` and some, such as a type in a menu,
with an `AttributeError` (`Misplaced`).

**KconfigEval** evaluates: each operator returns the value and the state with
the caches filled on the way. **KconfigValues** is a `Kconfig` instance in use.
**DepCache** is the abstract cache that is always right, over an abstract graph
of dependencies **DepGraph**, whose assumptions say what the invalidation relies
on, of one computation at a time. `Uses` and `Reads` of a cell are, in the run, what a
fresh computation of it asks for and what it fills. **KconfigConfig** loads
configuration files and says which symbols go into a minimal one.

**ConfigLines** has the lines themselves: what is written for given values, what
is read back from `auto.conf`, and which symbols `sync_deps` touches.
**ConfigStore** is a directory with a project in it: the tools come to some
values and write them, one system call of `proc.todo` after another, and may be
killed between any two, with a part of a file written (`Cuts`) or some of the
dependency files touched; the user edits `.config` and the Kconfig files; make
compiles again what uses a touched symbol. Where the values come from is open
there, and nothing in it is recursive, so that what the files promise can be
proved of it. `StoreAssumption` names its one limit: the values of the model do
not tell the number 0 from n, so a symbol does not change between the tristate
and the other types. The rename of the old file may fail where there is one; a
copy instead of a rename (a symbolic link) is left out. `saved`, `torn`, `lost`,
`unsaved` and `blind` are history variables.
**KconfigFiles** adds where the values come from: each tool of Kconfiglib, with
its instance in `work`. Its steps are made with the operators of `ConfigStore`
(`SaveAs`, `SaveMin`, `Sync`, `Ask`, ...), so that they are steps of it by
construction. Its initial states are a fresh directory without
`.config`, and one that was built and then edited.

### The front ends

**KconfigMenu** is what both front ends share: which nodes a
menu shows, what can be changed, the rows and the information texts.
**Menuconfig** has an operator from state to state for each handler.
**ScrollList** is a list with a cursor in a window, on its own, and what the
menus and the list of matches implement; **EditBox** is the text field.
**Guiconfig** keeps the state of Tk's Treeview (external) beside the globals: an
item that is detached keeps its open flag, its selection and its focus. Layout,
colours, the mouse's position and the columns of the show-name mode are left out.

## 3. The runs that pass

| Run | Question | Distinct states |
|---|---|---|
| `maix_asr` | main with every failure, SIGINT and keys | 428,000 |
| `font_draw` | any text of up to 8 characters, or any 4 bytes | 111,000 |
| `parse_opts` | any file of up to 4 lines | 180,000 |
| `benchmark` | up to 3 files of up to 2 frames | 55,000 |
| `lm_benchmark` | any text of up to 3 sentences | 92,000 |
| `project_tools` | any 3 calls of `project.py`, each failing or killed anywhere | 1,960,000 |
| `kconfig_parse` | 757 sets of Kconfig files, each read to its end | 23,700 |
| `kconfig_values` | every item of a tree read in any order, two values set between | 3,200 |
| `kconfig_files` | any two tools, an edit or a crash | 66,700 |
| `front_ends` | two changes and any moves in either front end | 45,000 |

Each takes one to three minutes or less. A property often is the conjunction of named parts, which are listed here.

`maix_asr`
- `KeepsProtocol`: the calls of main are a behaviour of `AsrProtocol`. The subtle
  places: `set_kws` must not register similar syllables after its decoder
  failed, and `ms_asr_clear` must not follow the end of the source.
- `CleanExit`: no path leaves the library open that main opened; status 0 after
  the main loop means fonts, library and key device were given back. Early returns
  leave the key device open, and so does the status 0 after a bench, with the
  fonts still mapped (`main.cpp:366,370`).
- `HonestTitle`: the title KWS only with the decoder. The code does not have this
  for the other two, which draw their titles after a failure as well.
- `ResetBlanks`: after a key press no result is left on the screen.
- `ScreenInv`: each callback flushes its own number of rows, yet no text of the
  buffer is hidden, title and first line never lag, and results of two decoders
  are never mixed.
- `Served`: SIGINT at any moment ends the program, and a queued press leads to a
  reset unless the program ends first, also behind events of other kinds and
  through an interrupted `select`.

`font_draw`
- `GlyphsPlaced`: wrap and height test keep every glyph in the buffer and apart.
- `FlushSafe`: the row returned, up to which the callers flush, is below every
  glyph, and what `fb_display` then reads is in `lcd_buf`, though `my_digitcb`
  does not limit the row to the screen.
- `ClipIsFinal`: after a glyph was dropped nothing more is drawn.
- `InString`: with the font loaded, the pointer stands on characters only.

`parse_opts`
- `LinesCount`: the options are a function of the lines up to the first unknown
  type, said without the loop.

`benchmark`, `lm_benchmark`
- `ResultsRight`: the lines are those of the first files, each the whole text of
  its own file, and of all of them without a signal or failure; a sentence is
  decoded whole, whatever its length is to that of a chunk. `OwnRowsOnly`: no
  rows of an earlier, longer sentence are decoded. `BenchEnds`: the bench ends,
  interrupted or not. `KeepsProtocol` as above.

`project_tools`
- `BuildRight`: between two calls a configuration that is there has the toolchain
  given last, path and prefix (`ToolchainOfConf`, excepted `split` and `kept`); a
  program is compiled, and its Makefile made, with the configuration saved last,
  whether menuconfig was left without saving, cmake failed before or a call was
  killed (`CompiledAsSaved`, excepted `unsaved`); it has the version of its tree
  (`VersionOfTree`, excepted tags with a dash). `CompiledAsSaved` also holds when
  `--toolchain` has removed that configuration: `build` with a Makefile there then
  compiles with it, which is the old toolchain, and the property says so. The
  exceptions are in section 4, and the run reaches each.
- `ToolsRight`: flash works with each argument as given last since clean_conf;
  the components follow `priority.conf`.

`kconfig_parse`
- `ReadInOrder`: the nodes are those of the lines, in their order, with their
  files and line numbers; a macro means what its definition says and an
  expression what its tokens say, both said without the parser (`TextRead`); a
  node printed and read again is the same node (`PrintedReadsBack`).
- `DepsMeanEnclosure`: direct dependency and visibility are, for all values,
  those of the enclosing and preceding statements.
- `SelectsWork`: a select that nothing warned of takes effect.
- `LoopsRaised`: a dependency loop is reported exactly when there is one, but for
  the loops of section 4. Deadlock is checked: no file stops the parser half way.

`kconfig_values`
- `NoStale`: whatever is read, set and unset in any order, every cached value is
  what a computation from the user values of the moment gives.
- `ImplementsDepCache`: every call is one of the cache that is always right. The
  run also evaluates the assumptions of the proof on this tree.
- `ValuesRight`: a choice has one selection, `assignable` is what setting
  respects, m occurs in tristates alone and with MODULES alone.

`kconfig_files`
- `ReadBack`: a configuration written is the one read back, `listnewconfig`
  has nothing to list, and nothing of an earlier configuration survives a load.
  `ToolsEnd`: tools that walk the symbols one by one end
  where setting all of them at once ends. `MinCompleteButModes`: the minimal
  configuration gives the complete one. `Kept`: the last complete configuration
  is in `.config` or `.config.old`, whatever is killed; but for two cases. A tool that
  saves an incomplete `.config` as the old one drops the complete one (`lost`). And
  `_save_old()` ignores an error: when the old file could not be renamed, the only
  copy is truncated, and a kill before the new one is complete loses it
  (`unsaved`). `DepTouched`: after
  `sync_deps` every symbol that is not as compiled has a new dependency file,
  also when earlier runs were killed; except for one that was taken out of the
  Kconfig files while an expression still named it, and after `sync_deps` has read
  an incomplete `auto.conf`. Other exceptions: section 4.

`front_ends`
- `NoTraceback`: `index()` finds the node it looks for, except in the two cases of
  section 4 that the run reaches: an entry shown for its children in
  `menuconfig.py`, and a change in the jump-to dialog in `guiconfig.py`. That each
  choice is defined at one place is assumed of the tree. `DisplayTrue`: the rows are
  those the values ask for, the menus above have theirs, and a fixed symbol is
  explained. `NothingLost`: when there is nothing to save, the file has the
  values. `Scrolls`: main display and list of matches implement `ScrollList`.
  `CursorInField`; `TreeTrue` and `Jumped`: the lazily filled tree of
  `guiconfig.py` shows what it should, also after a jump.

### Why the bounds are enough

- `maix_asr`: no decoder, each alone, and all four, so that every order of
  callbacks occurs; two key events of two kinds suffice for a press behind
  another event and for two resets; the loop is not bounded. `ResultLines`
  {0, 7}: an empty result and one longer than the screen.
- `font_draw`: 80 x 96, two and a half full glyphs a line, three lines high:
  eight characters fill it past its end, and with half widths a line breaks at
  every column.
- `parse_opts`: one option of each class; four lines set an option twice with a
  bad type between or behind, and complete a file.
- `benchmark`: three files, so that one has a file before and after it; two
  frames, so that a file can be interrupted half way.
- `lm_benchmark`: sentences of 2, 4 and 6 rows against chunks of 1, 3 and 4.
- `project_tools`: a call that saves, one that is killed or fails, one that
  builds. Toolchains: one that works, with a prefix, without one, and the prefix
  alone; one that is missing, which menuconfig may set all the same.
- `kconfig_parse`: the sets are made in families, each complete in one respect:
  help texts of three lines of every indentation, every dependency of a choice
  on two other symbols, and so on. `MaxExpansions` = 2 stands for the 100
  expansions of a function within itself that the code allows; a recursion is
  reported at either.
- `kconfig_values`, `kconfig_files`: a tree with every kind of property (choice,
  select, imply, range, a prompt that depends on another value, MODULES). Two
  settings, so that one is made under the caches of another. For the files two
  tools and one edit or crash: what one leaves half done the other finds. A file cut
  short has no line, or all but the last (`Cuts`).
- `front_ends`: menus of two levels, an implicit menu, a choice, a comment, a
  symbol at two places, one of them invisible;
  windows of one row and more; two changes, one under the display of the other.
  Moves are not bounded, except that the cursor of an empty list of matches,
  which the code lets run in either direction, goes to `MaxSel`.

Deadlock is checked in `maix_asr` and `kconfig_parse`. The other systems stop at
an end, or at their bound, so that `CHECK_DEADLOCK FALSE` stands in their
configurations.

### Fairness

`MaixAsr` and `Benchmark` assume weak fairness of the program's one thread: the
operating system runs it, and each call it makes returns (`ms_asr_run(1)` runs
one frame, `select` has a timeout). Weak fairness of the disjunction is enough,
since the thread always has exactly one next call. Nothing is assumed of the
user: no signal or key need ever come, and no number of them prevents progress.
That a wav file ends is part of the model (`MaxFrames`), not of the fairness.
The tools and the front ends have no liveness property: they wait for a user.

## 4. Where code and documents disagree

Two runs check one statement of the repository each, and find a state in which
the code does otherwise; `PROJECT.json` quotes the lines.

| Run | Statement | What the code does |
|---|---|---|
| `kconfig_loops` | the constructor checks for dependency loops | a choice that depends on a symbol in a menu inside it is in a loop that is not found; reading a value then recurses until Python gives up |
| `kconfig_minimal` | the complete configuration can be derived from the minimal one (docstring of `write_min_config`) | the symbol that is the default selection of a tristate choice is left out, and with it the choice's y mode when the symbol is a bool |

Others were met while modelling. Where a property excepts such a case, its
comment says so and the run reaches the case.

The program.
- `my_digitcb` copies the whole of a digit result to the 32 bytes of `digit_res1`
  (`main.cpp:89-92`): a result of 32 characters or more is written over the stack.
  A row below the screen, which `my_digitcb` does not limit, does not come of a
  shorter one.
- A GBK character without a glyph moves the pointer by 4 bytes instead of 2
  (`font.c:228,231`), so that the terminator can be stepped over, while fonts
  are called optional (`main.cpp:355`); a font that opens but cannot be mapped
  leaves `MAP_FAILED` in its slot (`font.c:168`).
- An unknown device type is "not support" (`opts.c:21`), but its -1 passes the
  check of `opts.c:204`. `font_path` is optional (`usage_zh.md:281`) and a file
  without it is rejected (`opts.c:206`). `usage_zh.md:265` names device types up
  to "custom", and `opts.c:204` accepts those up to "wav" only.
- `benchmark.c` writes results if the file could be opened, and closes NULL
  otherwise (`benchmark.c:183`); the run that finds the end of a file is counted
  as a frame (`benchmark.c:187`).
- A sentence in which nothing is recognised gets the result of the sentence
  before it (`lm_benchmark.c:189`).

The project tool.
- `config --toolchain X` leaves `global_config.mk` alone when `.config.mk`
  already names X, even if menuconfig has saved another toolchain since (`kept`).
  `build --toolchain X` with a Makefile there removes `global_config.mk` and
  compiles with the old toolchain, as `CompiledAsSaved` says; rebuild makes the
  configuration anew.
- Menuconfig saves B, the user changes back to the old values and leaves without
  saving: `global_config.cmake`, written only when menuconfig ends, is unchanged
  and build compiles the old values (`unsaved`).
- A call killed between `.config.mk` and the removal of `global_config.mk` is
  never made good (`split`); killed while it writes the latter, it leaves an empty file, into which
  the files of defaults are never merged again.
- The test for `build/Makefile` in menuconfig is always false, so that cmake
  always runs; the flow of `README.md:45-47` relies on it.
- `--toolchain-prefix` alone overwrites the path in `.config.mk`, and
  `--toolchain` alone the prefix: `.config.mk` has what the last call gave and
  nothing of the calls before. An argument of
  flash that equals its default cannot override the one saved. The order of the
  files merged differs with and without `DEFAULT_CONFIG_FILE`. A change of
  `priority.conf` takes effect at the next rebuild only. A tag with a dash in it
  gives a wrong version and hash.

Kconfiglib.
- `load_config(replace=True)` on an instance in use keeps a selection of the user
  when the file gives the symbols of the choice an m but no y.
- `sync_deps` does not flag a symbol that is gone from the Kconfig files but
  still named in an expression.
- After `unset_value()`, `load_config(replace=False)` may end with a `KeyError`
  in `_assigned_twice`. No tool of the repository does this.
- `_assignable` offers m alone for a symbol visible at m, selected at m and
  implied at y; set to m, it has the value y.
- A type or a prompt in a menu or comment, `visible if` elsewhere than in a menu,
  and help in a menu or comment end the constructor with an `AttributeError`
  instead of a `KconfigError`; so does `V := $(V)` of a new V, which is registered
  before its value is expanded.
- The docstring of `write_config` has errors of saving the old file "silently
  ignored" (`kconfiglib.py:1446`); the new one is then written over the only copy.
- `_expr_depends_on` takes `X != y` for a dependency on X, against its comment.
- `expr_str` does not escape `$(` in a string constant, although its docstring
  speaks of the format of Kconfig files: a default written as `"\$(V)"` is
  printed as `"$(V)"`, which is a macro when read again. A symbol with `option
  env` is printed with the environment's value as a default. The nodes that
  `PrintedReadsBack` is about have neither.

The front ends.
- A symbol defined at two places, one of which is invisible but shown for its
  child: the key n there ends `menuconfig.py` with a `ValueError` in
  `_update_menu` (`ShownForChildren`). Leaving the menu of a choice that has two
  places, where its parent does not show it, ends in one in `_leave_menu`; no
  choice of the model's tree has two places.
- The comment at `_needs_save` is wrong for a line about an invisible symbol with
  an equal value. `guiconfig.py`'s "Save as" does not reset `_conf_changed`,
  though its comment says that it is reset whenever something is saved.
- A value changed in the jump-to dialog in single-menu mode may empty the tree,
  and the next handler ends in an `IndexError` in `_loc_ref_item`.
- A bad search expression empties the list of that dialog but not its focus: the
  keys n, m and y change an item that is not shown. Its description is not
  refreshed after them.
- A save that fails after the old file was renamed leaves `.config.old` only.

## 5. What is proved

Eight modules of proofs hold for every value of the constants that satisfies the
named assumptions; TLC evaluates these on every run. Each inductive invariant was
checked by TLC before it was proved.

**FontDrawProofs** (from `ScreenAssumption`, `TextAssumption`). The type is
inductive by itself: the wrap is written back before the glyph is tested against
the height, so the pen never passes the right edge. `GlyphsPlaced` and
`FlushSafe` need to know where the pen is in relation to what has been drawn: every
glyph lies in the pen's line to its left, or in a line above. `ClippingIsFinal`
needs that after a clip the pen is in a line that does not fit, which no later
glyph leaves; `FlushStaysInBuffer` that the pen leaves the screen by one line
only (`OneLineBelow`), and the arithmetic of rows and bytes.

**MaixAsrProofs** (`LinesAssumption`, `OptionsAssumption`). The routines of the
screen have one shape, `Draws`: a new buffer, of which at least two bands and
all bands with text are flushed, with texts of one decoder only; from it follows
`ScreenInv`. For main the inductive invariant adds `AtPc`, the state of library,
decoders and fonts at each label, and `TitleInv`, which ties the titles in
buffer and framebuffer to the decoder. `HonestTitle` is not inductive without
the buffer's title, `ResetBlanks` not without the screen hidden or fully
flushed. `ImplementsProtocol` and `ImplementsScreen` are the refinements: from
`AtPc` each step of main is a step of `AsrProtocol` or leaves its variables
alone; each step is one of `LcdScreen` or leaves the screen alone.

**ParseOptsProofs** (`FileAssumption`, `NameAssumption`). A step that reads a line
extends the set of lines read by one (`SetsGrows`). `LinesCount` follows by
induction along the lines.

**BenchmarkProofs** (`ListAssumption`). The invariant is the type, `Control` (what the
set-up has reached), `Texts` (memory and both texts are what was heard of the file being run,
and nothing was heard of later ones), `Counts` (the lines of each result file)
and `LinesOfTheirFiles`. That a file occurs once is essential: with two
occurrences what was heard of a name would change after its line was written.

**LmBenchmarkProofs** (`FileAssumption`). `ResultsAreRight`, `OwnRows` and
`ImplementsProtocol`. `OwnRowsOnly` is about the chunk handed to the decoder;
what makes it inductive is `Rows`, which says of the static array which of its
rows are those of the sentence and which are silence. It rests on the padding
being as long as a chunk, for lines of every length and any size of chunks, and
on `Fits`: the padded sentence stays in the array. `Counts` ties the lines
written to the sentences decoded, with the one being written in between.

**KconfigProofs** has two parts. From the assumptions of `DepGraph`, `NeverStale`: no cached value
is ever stale, for any items and any order of reads and settings,
although the invalidation stops at items without a cached visibility. The
assumptions are about one computation at a time: it fills what the cells it uses
fill and never comes to use itself; its value depends on theirs and on the
user values of their items; and its item is among the `_dependents` of every item
it uses, which is what `_build_dep()` is for. What follows for a value and all that
is behind it (`ReadsClosed`, `ReadsAlone`, `DependentsLead`) is shown along the
computations, which end (`ComputationsEnd`: what they read are ever smaller sets). The
invariant is `ReadsFilled`, the claim of the comment in `_rec_invalidate()` made
exact: what a cached value was computed from is cached as well. It holds of the
cells that were read, and not of every item in a condition, since an operand
that decides the result ends the evaluation. `kconfig_values` shows that the
library implements this cache, and that the assumptions hold of the tree there.

From `StoreAssumption`, `ConfigKept` and `ChangesNoticed`: `Kept` and `DepTouched`
hold for any Kconfig files and versions of them, any values the tools come to, any number of
runs, edits and kills, and a file cut off anywhere. The tools of `KconfigFiles` are
built of the same steps.
- `Kept` is not inductive: it does not say why the second of two tools may
  rename. `ConfigInv` adds what a tool has left to do (`Writing`: the
  old file is renamed, the new one opened and filled; other tools only write
  `Elsewhere`) and where the last configuration is meanwhile: in `.config.old` from the
  rename to the fill (`Safe`), else in `.config`, if there is one and it is not in `torn`.
  After a rename that failed it is in `.config` until this is opened, and then nowhere.
- `DepTouched` compares values compiled with a header now, over any number of
  runs. `DepInv` says what a line of `auto.conf` tells in between: a symbol not
  touched has in the objects what `auto.conf` says of it (`Agrees`), since that file is
  written last; while `genconfig` works, `Syncing` says which of header, touches
  and `auto.conf` are done and what is left; `AutoInv`, that each
  line of a complete `auto.conf` gives a symbol of one of the versions so far a value
  other than n. The heart is `Untouched`: a symbol `sync_deps` does not touch has its
  old value, or had none and has none. Its exceptions are the two of `DepTouched`.
- `LinesAre` says what a written file holds for any order of the symbols: lines of the
  symbols to be written only, and `OldVal` reads back the value of each.

**CursorProofs** (`OffsetAssumption`, `BoxAssumption`). `OnScreen`: with lists and
windows of any size, any scroll offset and any resize, the cursor is on an entry
and on a row of the window; `Scrolls` transfers this to the front ends.
`InField`: the same for the edit box, in fields wider than the scroll offset.

**ProjectToolProofs** (`ToolAssumption`, `ComponentsAssumption`). `BuildIsRight` and `ToolsAreRight`, for any
toolchains, values, files of defaults, trees and number of calls. `BuildRight`
speaks of what was compiled; to be inductive it needs why a later make sees that
it must run cmake again: `UpToDate` (a Makefile not older than
`global_config.cmake` was made from it, and the header was written with it),
`Saved` (that file says what `global_config.mk` said last, removed or not, except
while `genconfig.py` works, or after it ended with an unsaved change), and for each
step of a call what has been done already (`Running`, `WithToolchain`, `Built`,
`Flashed`). That the components are in the right order (`Ordered` says from
which file) is a fact about `sort_components.py` alone, for any list of
components and any file. It is shown by induction along the components: the
least number of them after which the two lists are not arranged (`Arranged`)
would follow one after which they are, which `Placed` contradicts. That the
recursive function `Sorting` is what its definition says is proved first.

Only model-checked, and why:
- the liveness properties `Served` and `BenchEnds`: the prover has no rules for
  fairness and ENABLED;
- Kconfiglib's reading, values, what is read back from its files, and the front ends (`KconfigParse`,
  `KconfigValues`, `KconfigFiles`, `Menuconfig`, `Guiconfig`): expressions and
  trees are evaluated by recursive operators, about which nothing can be proved
  here. What the library relies on was therefore separated into `DepCache`,
  `ConfigStore` and `ScrollList`, which have no recursion. The links
  (`ImplementsDepCache`, `Scrolls`) are checked by TLC; `KconfigFiles` is made of
  `ConfigStore`'s steps.

## 6. What is not modelled, and why

- The recogniser itself: a binary. The models say when it may be called and let
  it call back with anything its decoders could deliver.
- Pixels, bitmaps, colours, the geometry of framebuffers (`fb_display.c` is the
  copy of rows in `LcdScreen`), the addresses of GBK glyphs in a font file,
  `ascii_font.c`, `dr_wav.h`.
- Lengths of buffers in bytes (`pny_result`, path names): what fills them is
  decided by the library or the file system. `LmBenchmark` assumes that a line
  fits in `pnyp_list` and that chunks have a positive length.
- The recursion of `trave_dir`; the choice of the best keyword in `my_kwscb`.
- The registration macros of CMake, which add to lists, and what cmake and the
  compiler do inside.
- Messages, warnings, logs, drawing and widgets.
- Kconfiglib's own test suite, the older copy of the library in `examples/` and
  the small programs there, except those listed as modelled.

## 7. What could follow

1. `TraveDir` (`benchmark.c:20-80`) as a stack over a directory tree: a file is
   found once, which discharges `ListAssumption`. A directory at the depth limit
   whose name ends in `.wav` is taken for a file.
2. `FbDisplay` (`fb_display.c`): what is read of the picture and written to the
   screen, for all sizes and pixel formats. With 32 bits `lcd_clear1` fills
   320*32*4 bytes, `font_draw` writes 4 bytes a pixel and `convertRGB2FB` reads 3.
3. The loop of `my_kwscb` (`main.cpp:133-154`) against a reference definition.
4. `DependentsAssumption` and `LocalityAssumption` of `DepGraph` as lemmas about one
   kind of property at a time, from an evaluation without recursion.

## 8. Running it

    tlc -config MCMaixAsr.cfg MCMaixAsr      # and likewise for the other runs
    tlapm MaixAsrProofs.tla                  # and the other *Proofs modules

`PROJECT.json` lists the runs with their expected result, the wrong versions
each property detects, the lines each definition models, the hazards and the
theorems.
