# Verification of the iOS VM research laboratory

TLA+ models of the programs of this repository, the TLC configurations that
check them on small instances, and theorems about them proved with TLAPS. Line
references such as `apple_dt.c:183-196` are to the repository's sources.

Contents: [The system](#the-system), [The plan](#the-plan),
[Modules and the code](#modules-and-the-code), [The runs](#the-runs),
[Fairness](#fairness), [Where code and documents disagree](#where-code-and-documents-disagree),
[The proofs](#the-proofs), [What is not modelled](#what-is-not-modelled),
[How to run](#how-to-run).

## The system

The laboratory edits the Apple Device Tree (the binary description of the
hardware that the XNU kernel reads at boot), boots an emulated iPhone on the
edited tree, and traces what runs in it. The core is the C toolkit in `native/`:
every other part calls it or consumes what it makes.

```
 IPSW --01_extract_ipsw.sh--> device_tree.bin
                                   |
            dt-parse / dt-patch / dt-apply         (native/, on apple_dt.c)
                                   |
                              *.lab.bin
                                   |
 run_lab.py --- Popen ---> QEMU (guest: XNU, frida-server)
                                   |  forwarded port
 run_frida.py --- agents ---> events --> trace.jsonl --> analyze_trace.py
                                QEMU's log --> panic_tracker.py
```

| component | state | operations | made hard by | correct when |
|---|---|---|---|---|
| Mutators, `apple_dt.c:183-196, 272-360` | the tree: `dt_node`, `dt_prop` on the heap, their bytes in the input buffer or in blocks of their own | `dt_get_prop`, `dt_set_prop_*`, `dt_add_prop`, `dt_upsert_prop_*`, `dt_delete_prop`, `dt_free` | two kinds of ownership told apart by one flag; a count kept beside the list; `malloc` failing half-way; long names | nothing is freed twice, freed from within the buffer, or lost; counts and lengths are those of the data; a call edits exactly the entry it names or nothing |
| Parser, `apple_dt.c:15-104` | cursor, C stack, the tree being built | `dt_parse`, `parse_node`, `parse_prop` | any bytes as input, error paths at each level of a recursion | no byte outside the buffer; a failed parse keeps nothing, a successful one loses nothing; nothing is built that bytes do not pay for |
| Serializer and format, `apple_dt.c:202-270` | writer, output file | `dt_serialize`, `dt_write` | a dry run that must agree with the real one; a write that stops half-way | a tree written whole reads back as itself; a torn file is refused |
| Lookup, `apple_dt.c:106-139` | none | `dt_find`, `node_name` | namesakes; names without a NUL | a path means a node or none |
| Dump, `apple_dt.c:141-181` | none | `dt_dump` | three forms of a value, chosen by its bytes | what it prints of a value, `dt-apply` reads back |
| dt-parse, dt-patch, dt-apply, `main.c`, `dt_patch.c`, `dt_apply.c` | buffer, tree, patch file, counters, output file | process from `main` to exit | partial failure, kill, order of directives | exit status, output and memory agree with each other and with what was asked |
| Directive syntax, `dt_apply.c:14-66, 68-123` | none | `fgets`, `trim`, `split_path`, value forms | quotes, `=` and `#` inside values, lines longer than the buffer, number bases, overflow | each line is the edit it was written for; a comment is none |
| Sample and tests, `mkdt_sample.c`, `test_dt.c` | none | | | source of claims about the rest |
| Lab harness, `run_lab.py` | the patched file, the QEMU process, the clock | validate, patch, launch, poll, wait, interrupt | two processes, a port both QEMU and others may hold, timeouts, Ctrl-C at any time | QEMU runs on the tree that was asked for; nothing is left behind; what is announced is true |
| Frida session, `run_frida.py` | device, session, script, trace file | spawn, attach, load, resume, detach | callbacks of another thread, errors between steps, the host killed in the middle of a line | each process spawned is resumed; each event handled is found in the trace |
| Agents, `frida_scripts/*.js` | none | hooks that emit events | | source of the session's messages |
| Trace analysis, `analyze_trace.py`, `panic_tracker.py` | counters | one pass over a log | torn lines, traces of several sessions and boots in one file | the activities shown before a panic are those of its own boot |
| Preparation, `01_extract_ipsw.sh`, `prepare_lab.sh` | files | extract, patch | steps that fail unseen, repeated runs | the artefacts are those of this run |
| Environment, `00_setup_env.sh` | installed tools | install, build | network | |

How they interact: the tools call the library in one thread; the harness calls
`dt-patch` as a process and trusts its exit status (`run_lab.py:57`); harness and
QEMU share a port and signals; the session's agent and its host exchange messages;
the trace and QEMU's log are files one part appends to and another reads later.

## The plan

Most important first. All steps are done.

1. `PropStore`, then `DTTree`: the mutators over an explicit heap, memory
   safety, and, with `PropCalls`, the refinement of the abstract store call by call.
   Proofs of both.
2. `DTParse`: the parser on any buffer. Proof of the bounds and the counts.
3. `DTImage`: serializer and parser together, the cycle read, edit, write.
4. `DTTools`: the three tools as processes on `PropStore`.
5. `LabRun`: the harness with QEMU, the port, the guest and Ctrl-C. Proof of safety.
6. `FridaSession`: spawn, attach, load, resume and detach, with the agent's
   callbacks in a thread of their own, errors at each step and the host killed
   anywhere; several sessions, over several boots, that append to one trace; what
   `analyze_trace` reads from that trace at any moment. Proof of what is not lost, and of
   what is shown.
7. `DTText`: `fgets`, `trim`, `split_path`, the value forms of `dt-apply` and what
   `dump_prop` prints, down to the character.
8. `mkdt_sample`'s encoder, in `DTImage`: the sample it makes is one of the files
   the cycle starts from.
9. More proofs: the parser's heap (`LinkedOnce`, `NothingLost`, `Consumed`), and every
   invariant of the tools and of the cycle read, edit, write (`DTImage`).
10. The language of a patch file, said apart from the program that reads it, and the proof
   that `dt-apply` reads it as meant and that what `dt-parse` prints belongs to it.

The preparation scripts have no module: they are straight sequences of calls
of third-party tools, see [below](#what-is-not-modelled).

Composition: `PropCalls` says which call may get which answer of `PropStore`, and
`DTTree` implements it (refinement, checked and proved);
`DTImage` and `DTTools` both take their edits from `PropStore` by `INSTANCE`, so
what they show holds of the lists on the heap too; `LabRun` takes from
`DTTools` what `dt-patch` may leave with status 0: a whole tree, or the one that
`tools_flush` shows, cut by a flush nobody looks at; `DTTools` takes directives
as the edits that `DTText` makes of their text. The abstract
specification worth stating is the property store: it is what `apple_dt.h`
describes and what all callers rely on.

## Modules and the code

`PROJECT.json` maps every definition to its lines.

**PropStore** is the abstract specification: each node a sequence of entries
(name, value, flag); `Set`, `Add`, `Upsert`, `Delete` either do exactly their edit
and return 0, or `Refuse` returns -1 with nothing changed; `Release` ends it.

**PropCalls** is that store with its caller. `call` is the last call and its arguments; the
step that answers it is the edit of that node, that name and that value, or a refusal where the
header has -1 for that call: a set or a delete of a name the node has not, a call
for which memory may be missing. A delete of a name that is there is never refused, nor is a
set to an empty value.

**DTTree** is the same library as written. `props[n]` is the linked list of node
`n` as a sequence of addresses; `prop[p]` is the struct at address `p` or `JUNK`;
`mem[a]` the bytes at an address of the input buffer (`Buf`) or the heap (`Block`).
`owns_data`, `length` and `n_props` are kept separately from what they describe,
as in the C code. `malloc` and `calloc` return any free address or fail; `free` of
an address that is not allocated, of one in the buffer, or of one freed already
sets `fault`. One action per function, with all it does; `call` records which and with what
arguments. `dt_add_prop` makes the struct first: when there is no memory for its bytes it
gives the struct back, by a `free` of its own. The traversal of
`dt_free` is one action, since nothing can observe it half-way; what a struct met
twice would do is part of `fault`.

**DTParse** chooses the content of the buffer when the cursor reaches it. No byte
is read twice, so every behaviour is the parse of some buffer. `frames` is the C
stack: for each `parse_node` under way its node and what remains of its two loops.
`parse_node` and `parse_prop` have a disjunct for each of their early returns;
`Return` is the end of a call, `Abandon` the way out of one after an error (its
loops end, it frees its node with what hangs from it, and returns NULL).

**DTImage** has files as sequences of records (a node's header, a property) and a
size in bytes, so a file can be cut anywhere or go on behind the tree; `tail` and
`pad` say that there are bytes other than zero behind a name or in the padding.
`dt_parse` is the format as a function, `Image` what the serializer makes,
`w_raw` its bounds check, piece by piece; `mkdt_sample` is the sample as `wprop`
encodes it, whose counts the programmer gives apart from what follows. `Sane` is the
limit on what a header announces, which the mutators do not know. `NoCap` stands for
the dry run's missing buffer, `Cuts` are the places where a write may stop. A record read
as one of the other kind is refused: what noise might be taken for is `DTParse`'s
question.

**DTTools** has the three tools in one module, as they share their skeleton: slurp,
parse, edit, write, give back, exit. Each call whose result the code looks at may
fail; the process may be killed between any two steps; `NoMemory` is the one
allocation whose result is not looked at. The tree and the buffer that it points into are
given back one after the other, with a kill in between as anywhere. `asked` records what the input and the
directives, in order, make of each property: the other half of `OutputAsAsked`.
A directive is the path, name and value that `DTText` makes of its text; a line that
is none of the forms fails. Data without a NUL used as a node's name is
taken for anything in `Text`, chosen anew for each node and each comparison, since what lies
behind it in memory is not defined; `dt_find` is therefore the set of what it may find.

**DTText** reads one line of a patch file. Characters are ASCII codes, which are
bytes of data as well, so that a string, a number and a list of bytes can denote the
same value. Each step is one `fgets`, which takes a line or as much of it as the
buffer has room for; `Directive` is what `main` makes of that piece: `trim`, the
split at the first `=`, `split_path` at the last `/`, and the four forms of a value.
`strtoul` has its bases, its sign and its saturation, and the conversion to `uint32_t`
its truncation, at widths that `ByteSize` and `LongSize` scale down. `dump_prop` is
what `dt-parse` prints of a value. The second half of the module is the language of a patch
file, said without the functions that read it: `IsDirective` is what a line must look
like to mean an edit (`Spells` for the value, `Numeral`, `Number` and `Bytes` for what
digits denote), `IsComment` a comment or blank line, `IsShown` a line made of what `dt-parse`
printed. Each line carries what its writer meant, and `TextAssumption` says that it is of the
language and means that; TLC evaluates it on the lines of the run.

**FridaSession** has, for each session, the main thread as steps of `pc`, frida's
thread as `on_message`, one message after the other, and the process it is about as
`target`. The trace is a sequence of lines; the end of the host (`Kill`) may cut
the last line of its session just before the newline (`"bare"`, still a whole
document) or elsewhere (`"torn"`), and whoever appends next writes on the same line.
`load_jsonl` and `Shown` are `analyze_trace.py` as functions of the trace, so its properties
are claims about running it at any moment. Any call to the device may raise, and `"unresumed"` is
the end by an exception of `device.resume`, of a process that may be in reach and
suspended still. While `script.load` is under way the agent sends any number of messages. `Reboot`
stands for a panic, after which QEMU is run again by hand: it assumes that the
messages under way arrive before the next boot does.

**LabRun** has `run_lab.py` as steps of `pc`, and the environment: QEMU
(`starting`, `listening`, `ended`), who has the port, the guest, Ctrl-C at any
step. `dt-patch` is one of `Outcomes`: status 0 with a tree that is whole or `"unflushed"`, any
other status with whatever the file may hold then. `wait_for_port` counts seconds, one or two a
turn.

`MCDTTree`, `MCDTParse`, `MCDTImage`, `MCDTTools` and `MCDTText` hold the instances;
the constants of `LabRun` and `FridaSession` are numbers and a set of model values,
given in their configurations. `DTTree_proofs`, `DTParse_proofs`,
`DTImage_proofs`, `DTTools_proofs`, `DTText_proofs`, `LabRun_proofs` and `FridaSession_proofs` hold
the proofs; `Facts` has the general lemmas they share, on numbers, functions defined
step by step and sums over finite sets.

## The runs

Every run that passes also shows that each of its properties can fail: for each
property `PROJECT.json` lists one plausible mistake in the code (`mutants`),
modelled by the definition that stands just before the one it would replace, such
as `RewrittenUnowned` before `Rewritten`.

| run | asks | instance |
|---|---|---|
| `tree` | does any sequence of mutator calls, with allocations failing anywhere, keep ownership, counts and lengths right, up to and including `dt_free`, and implement `PropStore`? | 2 nodes, 3 struct addresses, 3 blocks, 2 parsed places; a name of 32 characters or more; an empty and another value; four parsed trees |
| `parse_safe` | does the parser stay in the buffer, link once, lose nothing, honour the counts, and build nothing that bytes have not paid for? | every buffer size from 0 to 106, 3 nodes, 2 properties, counts 0 to 3 against limits of 2, lengths 0, 1, 4 and 100 |
| `image_cycle` | is a whole file read back as the tree it was written from unless a node has outgrown the parser's limit, and written as it was but for bytes that mean nothing, a torn one refused, the dry run exact? | the sample of `mkdt_sample` and 10 other files, limits of 3 properties and 2 children, 2 edits (1 of the sample), cuts 0, 1 and 8 bytes before the end of any record |
| `tools_runs` | do status, output and memory agree, for each tool and each way out, and does a path mean the node it spells? | 4 nodes, 3 inputs, 3 paths, up to 3 pieces of a patch file |
| `text` | is each line of a patch file the edit it was written for, a comment none, and what `dt-parse` prints read back by `dt-apply`? | 2089 lines: 18 values in 3 layouts, strings and comments of every length about that of the buffer, the printed form of every run of up to 5 of 4 telling bytes |
| `trace` | with two sessions over two boots, one killed anywhere or both: what is missing from the trace, whose events are shown before a panic, is a spawned process resumed? | 2 sessions of 3 messages, 2 boots, 2 activities shown |
| `lab_run` | is QEMU started on no tree but one reported done by this run's `dt-patch`, does the polling end, is QEMU ended by Ctrl-C? | a wait of 3 seconds, one interrupt, all combinations of options |
| `tools_flush`, `tools_longname`, `text_examples`, `text_comment`, `lab_up` | each finds a violation, see [below](#where-code-and-documents-disagree) | |

What the safety properties say:

- `MemorySafe`, `NoFault`, `NoLeak`: the flag `owns_data` is right at every step, so
  what `dt_set_prop_data`, `dt_delete_prop` and `dt_free` give back is allocated,
  theirs, and given back once; nothing allocated is out of reach.
- `CountsMatch`, `LengthsMatch`: `n_props` and `length`, which the serializer
  believes, are those of the list and of the data.
- `RefinesPropStore`: each call, by its name and arguments, is answered by `PropCalls`: for a
  reader of names, values and flags it edits the first entry of the name it was given, at
  the node it was given, or adds one there, or is refused where it may be and changes nothing.
- `DataInBuffer`, `Consumed`, `CountsHonoured`: the parser's answer is paid for by
  the bytes of the buffer, not by what the buffer announces.
- `LinkedOnce`, `NothingLost`: each struct hangs from exactly one place while the
  parse is under way, so a failing one frees everything once.
- `RoundTrip`, `TornDetected`, `NeedExact`: see the table above; a tree past the limit is
  written with status 0 and refused ever after, which is the other half of `RoundTrip`. `WrittenIdentical`: a
  file that `dt_write` or `mkdt_sample` made is written again byte for byte when
  nothing was edited. `OnlyNoiseLost`: of other files this is not so, and the property says what
  is lost: bytes behind a name's NUL, the 32nd of a name and padding become zero, what follows the
  tree goes, and nothing else changes.
- `Understood`, `CommentsIgnored`, `ShownReadsBack`: a line that fits the buffer makes the one
  edit it means and no other; a comment makes none as long as it fits too, and what happens to
  a longer one is shown by `text_comment`; a line with what `dt-parse`
  printed of a value makes that value again, but for the values with a NUL inside and
  the lists that are printed short.
- `StatusTold`, `OutputAsAsked`, `NoDuplicates`, `CleanExit`: a status of 0 is
  reliable; a whole output says what was asked, in order; no repeated name comes
  into being; each exit, early or not, gives back what it holds, the buffer after the tree.
- `PathMeansNode`: after any directives, renames among them, `dt_find` yields a node that
  the path spells, child by child, or none; where no two children of a node can be taken for one
  name it finds the one there is. Among namesakes it takes the first that
  matches and never the other, so it may miss one.
- `LaunchedPatched`, `NothingLeftBehind`: the harness never starts QEMU on an
  earlier run's tree, nor on one that `dt-patch` failed or was killed over; the one cut tree it
  may start on is that of the flush that `tools_flush` shows. An uninterrupted run ends after QEMU.
- `LossBounded`: an event that `on_message` has handled is found by `analyze_trace`,
  except for one per killed session: the line appended behind a torn one.
- `ShownOfThisBoot`: once the sessions of this boot have handled as many events as are
  shown, and one more for each line lost, no event of an earlier boot is shown
  before a panic of this one. With fewer it may be.
- `EndsResumed`, `LoadedGetsResumed`: a session that ends regularly leaves no process suspended;
  once the agent is loaded the process gets to run, also when the ping fails, unless
  `device.resume` raises or the host is killed.

### Bounds, and why they are enough

- **Addresses.** Three structs and three blocks let a block be freed, handed
  out again and owned by another property, and leave one node with two entries of
  a name. Memory runs out within the bound too, besides failing at any time.
  Blocks are interchangeable, hence the symmetry of `tree`; no other run needs one.
- **Names and values.** `"long"` stands for any name that is cut to `"args"` when
  stored: the only thing the code tells apart about names is whether they are equal
  as stored. Values matter by their bytes and by whether they are empty.
- **Parser.** The limits (4096 properties, 65536 children) are scaled to 2, with
  counts up to 3, so both sides of each limit occur. Sizes up to 106 go past the
  largest tree of three nodes and two properties with data, so every cut of
  every tree is a buffer. Three nodes make both a chain and a parent of two. When
  no address is left, `calloc` has failed. The sum that `rd_bytes` compares is
  of type `size_t`, of 64 bits: with lengths below 2^31 it does not overflow, so
  the model's integers have no width.
- **`Short`** (image): 0 cuts between records, 1 within the last byte of data or
  padding, 8 within a name, a header or the data. `MaxEdits` of 2 suffices for an edit
  that depends on an earlier one (add, then set; set to empty, then delete); the
  sample, the largest file, gets one, since what is to be seen of it is its encoding.
  `EditName` and `EditVal` are a name of each kind (cut or not) and an empty and
  another value. `MaxProps` of 3, for 4096, is passed by two additions to the chain's last
  node and by a file handed in; `MaxChildren` of 2, for 65536, by a file. `NeedExact` tries the buffers that are too small by less than the
  width of a property: with smaller ones the same check fails earlier.
- **`MaxLines`** (tools): three pieces are an edit, one that changes which node is
  found, and one that depends on it. `FlushFails` switches on the input of a
  disagreement; the passing run has it off, as the status can say nothing
  of an error that is never looked at, and the run `tools_flush` has it on.
- **Text.** `Limit` is 64 for the 1023 characters of a piece, so that lines and
  comments of every length about it are among the lines (100 for the examples, which
  are longer than 64); `NodeCap` and `MaxBytes` are scaled likewise to 12 and 16; the
  proofs hold for any `Limit` and `NodeCap`, any `MaxBytes` from 16 on, and bytes of 7 or 8 bits. With
  `ByteSize` 128 a u32 has 28 bits and with `LongSize` 2^30 `strtoul` saturates,
  both within TLC's integers; ASCII fits in the byte. One line at a time is
  enough: nothing but the file's position is carried from one line to the next.
- **Sessions.** `Window` of 2, for 10, and three messages a session let the window be
  filled by one session, by both, or by one with a line lost. Two sessions let one
  append behind the torn line of the other, at the same time or later; two boots let
  both be of one boot or of two.
- **`Wait`, `MaxInterrupts`** (lab): three seconds let turns of one and two seconds
  alternate and overrun the limit. One interrupt is all that the handler handles;
  the proofs hold for any number.
- Deadlock is checked for `DTImage`, where a behaviour goes on over several
  processes, and for no other: the other programs stop, by `dt_free`, by the return of
  `dt_parse`, by the end of a line or by an exit, so their configurations say
  `CHECK_DEADLOCK FALSE`.

## Fairness

Only the two programs that wait for others claim that something happens.

- `LabRun`: weak fairness of `RunLab` (the harness waits only where it waits in the
  code: a sleep, a connection attempt with a timeout, `proc.wait`; the last is not
  enabled until QEMU ends), and of QEMU's end once it was sent SIGKILL. None for
  QEMU's end otherwise, for SIGTERM, for listening, for the guest or for
  interrupts. That an uninterrupted run ever ends is therefore not claimed.
- `FridaSession`: weak fairness of each session's `Main`: frida's calls come back or
  raise. Not of `Watch`, which ends when the user likes, nor of `Kill`, of the
  process, the agent, the messages or the guest.
- `DTTree` and `DTImage` have none: their caller decides what comes next. `DTParse`,
  `DTTools` and `DTText` have none either: that the parser's loops end follows from `Consumed`,
  since each turn without an error has built a struct, and structs are paid for in bytes; the
  tools' steps are a line, but for the pieces of a file, which `fgets` uses up.

## Where code and documents disagree

Each has a run that finds the counterexample and a finding in `PROJECT.json` with
the quotation.

- `tools_flush`: `dt_write` returns 0 though `fclose`, whose result it drops, could not
  flush the file.
- `tools_longname`: upserting a name of 32 characters or more never finds what it
  stored, so the second time adds a duplicate.
- `text_examples`: `dt_apply.c:14` gives a comment behind `!delete` as an example of the
  format. Only a string, a number and a list of bytes may have anything behind them;
  this line fails, and `dt-apply` ends with status 1.
- `text_comment`: `examples/lab.patches:5` and `dt_apply.c:10` have lines with `#` ignored. What
  follows the 1023rd character of a comment is read as a line of its own, and applied
  when it is a directive.
- `lab_up`: the port on the host accepts as soon as QEMU listens, so
  "frida-server ARRIBA" can be printed for a guest still booting.

Three more are in the models, though no run looks for them:

- `apple_dt.h:70` promises that what is parsed and written is the original ("parse->write ==
  original"). What dirt a file from elsewhere may hold is not kept; how much that is, is the
  property `OnlyNoiseLost`, checked and proved.
- `run_lab.py:106` says that `--dry-run` only prints the command ("solo imprime el comando"). With
  `--patch-bootargs` the tree is patched, and its file written, before the option is looked
  at (`run_lab.py:125`): `LabRun`'s `maybe_patch_dt` does not ask for it.
- `docs/workflow_ipsw.md:49` has the harness's output go to `qemu.log` with QEMU's, and
  `analyze_trace.py:70` looks for "panic" in it. The harness's own hint "¿panic?", printed when
  the polling times out (`announced = "timeout"`), is taken for one.

Related behaviour which no document rules out, and which the models have as
steps or leave open:

- An interrupt between `Popen` and the `try`, or a second one in the handler,
  leaves QEMU behind.
- Nothing keeps `dt_add_prop` from a node's 4097th property, with which `dt_write`
  returns 0 and no tool reads the file again.
- With one path for input and output a kill during the write loses the tree;
  `NoMemory` in `dt-apply` ends the process; the error count and not the output tells
  that some directives failed.
- The part of a directive behind the 1023rd character is a line of its own. A number too large for a u32 is cut, one that is none is 0, without a word.
  A u32 of 0 is shown by `dt-parse` as `""`.
- A Frida session that fails after `spawn` and before the agent is loaded, or in
  `device.resume`, leaves the process suspended. What is shown before a panic may be an earlier boot's when this one had
  few events.

## The proofs

TLAPS proves, for all values of the constants that satisfy the named assumptions:

| theorem | states |
|---|---|
| `DTTree_proofs`: `TypesHold`, `MemoryIsSafe`, `NeverFaults`, `NeverLeaks`, `CountsAlwaysMatch`, `LengthsAlwaysMatch` | each invariant of the run `tree` |
| `DTTree_proofs`: `Refinement` | `Spec => RefinesPropStore` |
| `DTParse_proofs`: `TypesHold`, `DataStaysInBuffer`, `CountsAreHonoured` | three invariants of `parse_safe` |
| `DTParse_proofs`: `EachLinkedOnce`, `NothingIsLost`, `ConsumedIsBuilt` | the other three |
| `DTImage_proofs`: `ImageTypeCorrect`, `ImageRoundTrip`, `ImageTornDetected`, `ImageNeedExact`, `ImageWrittenIdentical`, `ImageOnlyNoiseLost` | each invariant of `image_cycle` |
| `DTTools_proofs`: `ToolsTypeCorrect`, `ToolsCleanExit` | two invariants of `tools_runs` |
| `DTTools_proofs`: `ToolsPathMeansNode` | a third, for any tree, any names and any path |
| `DTTools_proofs`: `ToolsStatusTold` | a fourth, if no flush fails |
| `DTTools_proofs`: `ToolsNoDuplicates`, `ToolsOutputAsAsked` | the other two, if names fit their field and no input repeats one |
| `DTText_proofs`: `TextTypeCorrect`, `TextUnderstood`, `TextCommentsIgnored`, `TextShownReadsBack` | each invariant of `text` |
| `LabRun_proofs`: `TypesHold`, `LaunchesPatched`, `LeavesNothingBehind` | the invariants of `lab_run`; a tree cut by an unnoticed flush is among what `dt-patch` may leave |
| `FridaSession_proofs`: `TypeCorrect`, `SessionsEndResumed`, `LossIsBounded` | three invariants of `trace` |
| `FridaSession_proofs`: `HandledStaysWritten` | each handled message has a whole line in the trace, whoever else appends to it |
| `FridaSession_proofs`: `ShowsThisBoot` | the fourth invariant of `trace` |
| `FridaSession_proofs`: `TraceInBootOrder` | the lines of the trace are in the order of the boots |

Assumptions. `DTAssumption`: lengths are natural numbers, only the empty string
has length 0, cutting a name twice is cutting it once, blocks and buffer
do not overlap, and parsed trees are as `parse_node` leaves them (`FreshTree`).
`ParseAssumption` and `LabAssumption`: sizes, counts, lengths and limits are natural
numbers. `ToolsAssumption`: the root and the children of nodes are nodes, inputs hold entries, a
cut name is a name, paths are sequences of segments. `ImageAssumption`: node numbers are
1 to some number, with room for the nodes of every file handed in that is a tree (a bound
of the model; nodes are never added), lengths leave bit 31 to the flag, cutting a name twice is
cutting it once, the limits let the sample's two properties and children through, files are
sequences of records, and lengths, limits and `Short` are natural numbers, so with all of them
in `Short` a write may stop after any byte. `TextAssumption`: a line is a text without
NULs and with at most one newline, at its end, and of the kind it says; a byte has 256 values (in the run, 128), the
values of `strtoul`'s result are a multiple of those of a u32 (2^64 of 2^32), and there is room
for the 16 bytes that `dt-parse` shows. `FridaAssumption`: the same of messages, boots and window, and there are finitely
many sessions, as lines are counted. No other set is assumed finite. Three theorems of the tools have hypotheses
of their own, which are the conditions under which the code keeps its promise: that no
flush fails (`~FlushFails`, since nobody looks at what `fclose` returns), and that names
fit (`NamesFit`) and inputs repeat none (`TreesDistinct`), since a name that is cut is
not found again. The runs `tools_flush` and `tools_longname` show what happens otherwise.

**The tree.** No property is inductive alone. What `free` hits depends on ownership
(`OwnershipTold`); that no one else refers to what is freed depends on
structs being linked and blocks being owned only once (`LinkedOnce`, `OwnedOnce`);
that this survives an allocation depends on `NoLeak`: an address that is
handed out, being unallocated, is nobody's. `Inv` is their conjunction with the
types, counts and lengths; the proof has a lemma per function. `dt_free` ends
the life of the tree, so after it only `NoFault` and `NoLeak` remain to be claimed.

**The refinement.** `View` maps the heap to entries: name, flag and the bytes
`data` points to, and to empty lists after `dt_free`. Under `Inv` the entry
of a struct is disturbed only by a step that writes that struct or frees its block,
and no other struct shares either, so a step changes the list of one node only and
there exactly as `PropStore` says of the node, name and value that `call` holds. A call
that fails is one that `PropCalls` lets be refused: the search found no entry, or an
allocation that the call makes returned NULL.

**The parser.** `CountInv` says of each node, while there is no error, that it is
complete or belongs to exactly one frame, which knows what is still to come: the
announced counts are the list's length plus what the frame's loop has left, plus
the child under way for all but the innermost frame. `ResultInv`: a tree is
returned only with an empty stack and no error. `DataInBuffer` and the cursor follow
from `Fits`, with `Align(n) >= n`.

**The parser's heap.** `HeapInv` speaks of single links: what is linked is in use and
linked from one place, a root (a frame's node, or the tree returned) is linked
from nowhere, no two frames share a node, and any set closed under children that has the
roots has every node (`AllReached`), which is reachability without paths. `Return` turns a
root into a child, `Abandon` removes a root with `Subtree` of it; `SubtreeIs` says what that
least closed set is, and with each child linked once it meets no other root's. The counts in
`LinkedOnce` and the sets in `NothingLost` follow. For `Consumed`, `Facts` shows that the sum
over a finite set is one function and that any element may be taken out of it
first (`SumsSolve`, `SumsAny`), by the well-foundedness of the strict subsets of a finite
set; so a property more is its bytes more. The heap itself is not assumed finite: what is in
use is (`Finite`), as each step adds one struct.

**The cycle.** `IInv` is `Memory` (the lists are as many as the numbers of children, these
are a tree in preorder, and names are cut), `OnDisk` (what was written is the image of a tree
with those properties, whole or cut), `Same` (a tree read from a whole file and not edited
is the one the file was written from) and `AsRead` (from any other file, it is the one
`dt_parse` makes of it); TLC checked it as an invariant of `image_cycle`'s instance. `RoundTrip` alone is not inductive: it says nothing of the tree in
memory that the next write will use. The parse, the sizes and the
calls of `w_raw` are folds; each is shown to be a chain of values, one for each record or
piece (`PassFolded`, `BytesFolded`, `WrittenFolded`), and statements along a chain go by induction on
its index, for which `Facts` has the least element of a set of numbers. Reading the image of
a tree (`ImageRead`): after each node's records the cursor holds exactly the nodes so far,
or an error if their bytes are more than the file has or one of them has too many properties;
`d[i]`, the nodes still due after `i` of them, reaches 0 at the last and not before, so the pass
ends there and nowhere else. A torn file has fewer bytes than the image, so the first record
that does not fit ends it. The other direction, that what is read is a tree, is the invariant of
the cursor (`ReadIsTree`). For `OnlyNoiseLost` the chain is followed the other
way: behind each record read stands the place where its image will be (`Behind`), so that at the
end of the tree both are the same record by record (`ReadImage`). For `NeedExact` the calls' sizes add up record by record to the
records' widths, and with a cap an error once made stays (`WrittenIs`).

**The tools.** `Held` tells for each point of a run what is held there, `Told` what
`disk`, `saved`, `applied` and `failed` may be. `Wanted` is the relation between the tree in
memory and the directives applied: what a reader gets of it is `asked`. It is kept because
`dt_find` yields nodes or `NULL` (`FindsNode`, by induction along the path), and
because an edit that finds no second entry of its name leaves what every other name
reads as it was (`EditMeans`); with repeated names, deleting one would uncover another.
`PathMeansNode` needs only the types: the search is a chain of sets, one for each segment
(`Finding`), and each is compared with the nodes that the path spells up to there
(`UpTo`, `WalkGoesOn`). Where names are told apart the one child that a segment may mean is the first
that matches, with every child before it passed (`DescendFinds`).

**The harness.** `Placed` says what has happened by the place `pc` has reached:
QEMU exists from `Popen` on, past the patch the tree is one reported done if one was asked for,
only an interrupt leads to the handler.

**The session.** `HandledWritten`: for each message handled there is a line with it that is
not cut; a line is never changed once it is written. `Cuts`: a cut line is from a killed
session and the only one of it. A message that is handled and not found is thus on a
line behind a cut one; mapping it to the session that was cut there is an injection
into the killed sessions, for two lines do not follow the same one, which bounds
their number. `Resumed` says where a suspended process can be met.
What is shown rests on `InOrder`: the lines are in the order of the boots. It is kept
since a session of an earlier boot has no process and no message under way (`Stale`),
so that whoever appends is of the present boot. Then the messages of this boot which
are found, at least as many as are shown, are all on lines behind those of earlier boots.

**The text.** `TextInv` says that what is left is an end of the line and that a line which fits
is one piece, with its newline perhaps as another, which is nothing (`Stage`). What remains is
a statement about `Directive` for every text. `AssignsRead`: of a line of the language
`trim`, the first `=` and the last `/` find the node, the property and the value, since neither a
path nor its blanks hold a `=` and a property holds no `/`. Then each form of a value
(`SpellsRead`). A string ends at the last quote (`QuotesRead`). For a number, `strtoul`'s run of
digits and its value are functions along the text; `ValueCounts` has them agree with `Number`
as long as the value fits, and no step on the way can saturate since the values only grow; `WordBack`
takes a u32 to its four bytes and back, cut or negated. For a list, reading goes
number by number and `Bytes` character by character: `NumberThrough` shows that both have
the same bytes behind each number, so that by descent on what is left (`Descent`) they have
the same at the end, and the closing bracket is where reading stops (`ListsRead`). What `dump_prop`
prints is of the language (`ShownString`, `ShownWord`, `ShownList`): eight digits are the word,
place by place (`HexWord`), and three characters add one byte to the list (`PrintedByte`).
Each recursion here runs along a sequence, so `Facts` gives its values as a function
(`Recursion`) and induction goes over sets of places, which needs no schema.

Only model-checked: liveness (`PollingEnds`, `InterruptEndsQemu`, `LoadedGetsResumed`), as fairness and `ENABLED` are beyond the
prover. Every invariant of a passing run is a theorem, three of the tools' under the
conditions above.

## What is not modelled

- The layout of a dump (`dump_node`'s indentation, braces and counts): it changes
  nothing and no other program reads it.
- Path segments of more than 255 characters find nothing (`apple_dt.c:126`); they are
  among `DTTools`' paths not found.
- The width of counts: `n_props++` on a 32-bit word would need 2^32 entries.
- The depth of the C stack: `Consumed` bounds the frames by the bytes of the file,
  how many the stack holds is not in the code.
- The choice of accelerator and QEMU's command line: pure functions of the host.
- A full disk in `on_message`: frida reports an exception of a callback and goes on, so
  the line would be missing without a kill. What the agents read of the arguments
  of a call, and the choice of device and script.
- `analyze_trace.py`'s `summarize` and `panic_tracker.py`: counts over one pass of a
  file, which keep no state and are read by a person.
- `01_extract_ipsw.sh`, `prepare_lab.sh`: straight sequences of calls of `ipsw`,
  `img4lib`, `find` and QEMU's build. What they leave is decided by those tools, which
  the repository does not contain; the one thing that is theirs, a chain of `&&`
  whose failure `set -e` does not see, is a line of shell and listed as a hazard.
- `00_setup_env.sh`: network and package managers.
- That `mkdt_sample` looks at no result of `fwrite` or `fclose`: a sample cut short is
  one of the torn files of `image_cycle`. `test_dt.c` is read for what it claims of the rest.

## How to run

```
tlc -workers 2 -config MCDTTree_tree.cfg MCDTTree
tlapm DTTree_proofs.tla
```

`PROJECT.json` lists each run's module and configuration. Each run takes two
minutes at most.
