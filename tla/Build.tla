------------------------------- MODULE Build -------------------------------
(***************************************************************************)
(* The build driver make/make.go: it downloads what is missing, compiles,  *)
(* links, packs an image and starts QEMU.  What is on disk outlives an     *)
(* invocation, which can fail, panic or be killed at any step; the next    *)
(* one starts from what it left.  Downloads and the assembly of .S files   *)
(* run in goroutines that report over channels.                            *)
(*                                                                         *)
(* An object file is the number of the invocation that wrote it.           *)
(***************************************************************************)
EXTENDS Integers, Sequences, FiniteSets, SequencesExt

CONSTANTS
  Tasks,         \* the archives to download
  LimineBinary,  \* the one that limine is compiled and linked from
  DoneCap,       \* capacity of the channel of the downloads
  Asm,           \* the .S files that a source tree may have
  Main,          \* main.c
  ImageFiles,    \* what createImage links into iso_root, in its order
  MaxRuns        \* bound on the number of invocations

ASSUME BuildConstants ==
  /\ LimineBinary \in Tasks /\ Main \notin Asm
  /\ DoneCap \in Nat \ {0} /\ MaxRuns \in Nat
  /\ IsFiniteSet(Tasks) /\ IsFiniteSet(Asm)
  /\ ImageFiles \in Seq(STRING) /\ IsInjective(ImageFiles)

Absent == 0    \* no object file
Late == -1     \* written by a compiler that outlived its invocation
None == "none"

VARIABLES
  run,      \* the number of the invocation
  p,        \* the state of the process
  dir,      \* disk: the directory of each archive
  limine,   \* disk: limine-binary/limine exists
  obj,      \* disk: the object files
  kernel,   \* disk: the object files bin-x86_64/kernel was linked from
  root,     \* disk: the files in iso_root
  iso,      \* disk: drastic.iso
  orphans   \* compilers that outlived their invocation

disk == <<dir, limine, obj, kernel, root, iso>>
vars == <<run, p, disk, orphans>>

\* No process.
Idle ==
  [pc |-> "idle", args |-> None, want |-> {}, fetching |-> {}, doneChan |-> <<>>,
   doneUrls |-> 0, downloads |-> <<>>, errs |-> FALSE, matches |-> {},
   cc |-> [s \in Asm |-> None], spawned |-> 0, ok |-> TRUE, ctxDone |-> FALSE, links |-> 0]

\* os.Exit, a panic, the return from main.
Exit == p' = Idle

GoTo(pc) == p' = [p EXCEPT !.pc = pc]

-----------------------------------------------------------------------------
(* Downloads                                                               *)

\* main: a directory that exists counts as downloaded; the others are fetched
\* by a goroutine each.
Start(args) ==
  /\ p.pc = "idle" /\ run < MaxRuns
  /\ run' = run + 1
  /\ LET want == {t \in Tasks : dir[t] = "absent"}
     IN  p' = [Idle EXCEPT !.pc = "download", !.args = args, !.want = want, !.fetching = want]
  /\ UNCHANGED <<disk, orphans>>

Result(task, outcome) == [task |-> task, outcome |-> outcome]

\* The goroutine of an archive opens it, or fails before or after the server has
\* answered, and reports.
downloadGziped(t) ==
  /\ t \in p.fetching /\ Len(p.doneChan) < DoneCap
  /\ \E outcome \in {"ok", "no response", "no gzip"} :
       p' = [p EXCEPT !.fetching = @ \ {t},
                      !.doneChan = Append(@, Result(t, outcome))]
  /\ UNCHANGED <<run, disk, orphans>>

\* The loop of downloadManyGzipedTars.  Without a response there is no body, and
\* body.String() in the error message panics.
ReceiveDownload ==
  /\ p.pc = "download" /\ p.doneUrls < Cardinality(p.want) /\ p.doneChan # <<>>
  /\ LET result == Head(p.doneChan)
         rest   == [p EXCEPT !.doneChan = Tail(@), !.doneUrls = @ + 1]
     IN  CASE result.outcome = "ok" ->
                p' = [rest EXCEPT !.downloads = Append(@, result.task)]
           [] result.outcome = "no gzip" -> p' = [rest EXCEPT !.errs = TRUE]
           [] result.outcome = "no response" -> Exit
  /\ UNCHANGED <<run, disk, orphans>>

\* Bug variant: the errors are dropped.
DownloadsDoneAnyway ==
  /\ p.pc = "download" /\ p.doneUrls = Cardinality(p.want)
  /\ GoTo("untar")
  /\ UNCHANGED <<run, disk, orphans>>

DownloadsDone ==
  /\ p.pc = "download" /\ p.doneUrls = Cardinality(p.want)
  /\ IF p.errs THEN Exit ELSE GoTo("untar")
  /\ UNCHANGED <<run, disk, orphans>>

-----------------------------------------------------------------------------
(* Unpacking; the body of the response is only read now.                   *)

\* The directory is created.
UntarBegin ==
  /\ p.pc = "untar" /\ p.downloads # <<>>
  /\ dir[Head(p.downloads)] = "absent"
  /\ dir' = [dir EXCEPT ![Head(p.downloads)] = "partial"]
  /\ GoTo("untar files")
  /\ UNCHANGED <<run, limine, obj, kernel, root, iso, orphans>>

\* The directory cannot be created; main reports it and goes on.
UntarRefused ==
  /\ p.pc = "untar" /\ p.downloads # <<>>
  /\ p' = [p EXCEPT !.downloads = Tail(@)]
  /\ UNCHANGED <<run, disk, orphans>>

\* The files follow, to the end or to an error, which main reports and forgets.
UntarEnds ==
  /\ p.pc = "untar files"
  /\ \E end \in {"partial", "complete"} : dir' = [dir EXCEPT ![Head(p.downloads)] = end]
  /\ p' = [p EXCEPT !.pc = "untar", !.downloads = Tail(@)]
  /\ UNCHANGED <<run, limine, obj, kernel, root, iso, orphans>>

\* panic(header.Typeflag)
UntarPanics ==
  /\ p.pc = "untar files"
  /\ Exit
  /\ UNCHANGED <<run, disk, orphans>>

\* limine is compiled unless it is there.
BuildLimine ==
  /\ p.pc = "untar" /\ p.downloads = <<>>
  /\ \/ limine /\ GoTo("mkdir") /\ UNCHANGED limine
     \/ ~ limine /\ dir[LimineBinary] # "absent" /\ limine' = TRUE /\ GoTo("mkdir")
     \/ ~ limine /\ Exit /\ UNCHANGED limine
  /\ UNCHANGED <<run, dir, obj, kernel, root, iso, orphans>>

-----------------------------------------------------------------------------
(* buildAssembly                                                           *)

\* matches are the .S files of the source tree as it is now; between invocations
\* files come and go.
AsmStart(matches) ==
  /\ p.pc = "mkdir"
  /\ p' = [p EXCEPT !.pc = "asm", !.matches = matches,
                    !.cc = [s \in Asm |-> IF s \in matches THEN "running" ELSE None],
                    !.spawned = Cardinality(matches)]
  /\ UNCHANGED <<run, disk, orphans>>

\* A compiler ends; its goroutine waits for the unbuffered channel.  One that
\* fails may delete the object file of an earlier invocation.
ccFile(s) ==
  /\ p.cc[s] = "running"
  /\ \/ p' = [p EXCEPT !.cc[s] = "ok"] /\ obj' = [obj EXCEPT ![s] = run]
     \/ p' = [p EXCEPT !.cc[s] = "error"] /\ obj' \in {obj, [obj EXCEPT ![s] = Absent]}
  /\ UNCHANGED <<run, dir, limine, kernel, root, iso, orphans>>

\* Bug variant: errors are printed and forgotten.
AsmReceiveIgnores(s) ==
  /\ p.pc = "asm" /\ p.spawned > 0 /\ p.cc[s] \in {"ok", "error"}
  /\ p' = [p EXCEPT !.cc[s] = None, !.spawned = @ - 1]
  /\ UNCHANGED <<run, disk, orphans>>

AsmReceive(s) ==
  /\ p.pc = "asm" /\ p.spawned > 0 /\ p.cc[s] \in {"ok", "error"}
  /\ p' = [p EXCEPT !.ok = @ /\ p.cc[s] = "ok", !.cc[s] = None, !.spawned = @ - 1]
  /\ UNCHANGED <<run, disk, orphans>>

\* Bug variant: the context has no timeout.
NoTimeout == p.pc = "asm" /\ p.ctxDone /\ UNCHANGED vars

\* The five seconds are over.
Timeout ==
  /\ p.pc = "asm" /\ ~ p.ctxDone
  /\ p' = [p EXCEPT !.ctxDone = TRUE]
  /\ UNCHANGED <<run, disk, orphans>>

\* exec kills a compiler whose context is done.
CcKilled(s) ==
  /\ p.ctxDone /\ p.cc[s] = "running"
  /\ p' = [p EXCEPT !.cc[s] = "error"]
  /\ UNCHANGED <<run, disk, orphans>>

\* buildAssembly gives up and the process exits; a compiler that is not yet
\* killed by then goes on by itself.
AsmTimesOut ==
  /\ p.pc = "asm" /\ p.spawned > 0 /\ p.ctxDone
  /\ Exit
  /\ orphans' = orphans \cup {s \in Asm : p.cc[s] = "running"}
  /\ UNCHANGED <<run, disk>>

OrphanEnds(s) ==
  /\ s \in orphans
  /\ orphans' = orphans \ {s}
  /\ obj' \in {obj, [obj EXCEPT ![s] = Late]}
  /\ UNCHANGED <<run, p, dir, limine, kernel, root, iso>>

AsmDone ==
  /\ p.pc = "asm" /\ p.spawned = 0
  /\ IF p.ok THEN GoTo("main") ELSE Exit
  /\ UNCHANGED <<run, disk, orphans>>

-----------------------------------------------------------------------------
(* The rest of main; every step of it may fail, which ends the process.    *)
(* What a failing tool leaves of its output is not modelled: the next      *)
(* invocation writes it again before it is used.                           *)

Fails ==
  /\ p.pc \in {"mkdir", "main", "link", "image", "links", "xorriso", "install", "clean"}
  /\ Exit
  /\ UNCHANGED <<run, disk, orphans>>

buildMain ==
  /\ p.pc = "main"
  /\ obj' = [obj EXCEPT ![Main] = run]
  /\ GoTo("link")
  /\ UNCHANGED <<run, dir, limine, kernel, root, iso, orphans>>

\* All the object files that are there are linked, also those whose source has
\* been removed or renamed since they were compiled.
linkKernel ==
  /\ p.pc = "link"
  /\ kernel' = obj
  /\ GoTo("image")
  /\ UNCHANGED <<run, dir, limine, obj, root, iso, orphans>>

\* Bug variant: what an earlier invocation left is not removed.
ImageBeginKeeps ==
  /\ p.pc = "image"
  /\ GoTo("links")
  /\ UNCHANGED <<run, disk, orphans>>

\* createImage removes iso_root first.
ImageBegin ==
  /\ p.pc = "image"
  /\ root' = {}
  /\ GoTo("links")
  /\ UNCHANGED <<run, dir, limine, obj, kernel, iso, orphans>>

\* os.Link fails if the name exists.
ImageLink ==
  /\ p.pc = "links" /\ p.links < Len(ImageFiles)
  /\ LET file == ImageFiles[p.links + 1]
     IN  /\ file \notin root
         /\ root' = root \cup {file}
  /\ p' = [p EXCEPT !.links = @ + 1]
  /\ UNCHANGED <<run, dir, limine, obj, kernel, iso, orphans>>

ImageLinked ==
  /\ p.pc = "links" /\ p.links = Len(ImageFiles)
  /\ GoTo("xorriso")
  /\ UNCHANGED <<run, disk, orphans>>

xorriso ==
  /\ p.pc = "xorriso"
  /\ iso' = [kernel |-> kernel, bootable |-> FALSE]
  /\ GoTo("install")
  /\ UNCHANGED <<run, dir, limine, obj, kernel, root, orphans>>

\* limine bios-install
BiosInstall ==
  /\ p.pc = "install"
  /\ iso' = [iso EXCEPT !.bootable = TRUE]
  /\ GoTo("clean")
  /\ UNCHANGED <<run, dir, limine, obj, kernel, root, orphans>>

\* iso_root is removed, and the arguments tell whether QEMU is started.
ImageEnd ==
  /\ p.pc = "clean"
  /\ root' = {}
  /\ IF p.args \in {None, "d"} THEN GoTo("qemu") ELSE Exit
  /\ UNCHANGED <<run, dir, limine, obj, kernel, iso, orphans>>

runQemu == p.pc = "qemu" /\ Exit /\ UNCHANGED <<run, disk, orphans>>

-----------------------------------------------------------------------------

\* The developer interrupts the process and its compilers.
Interrupt ==
  /\ p.pc # "idle"
  /\ Exit
  /\ UNCHANGED <<run, disk, orphans>>

\* The bound on the number of invocations is reached.
Rest == p.pc = "idle" /\ run = MaxRuns /\ UNCHANGED vars

Init ==
  /\ run = 0
  /\ p = Idle
  /\ dir = [t \in Tasks |-> "absent"]
  /\ limine = FALSE
  /\ obj = [s \in Asm \cup {Main} |-> Absent]
  /\ kernel = obj
  /\ root = {}
  /\ iso = [kernel |-> obj, bootable |-> FALSE]
  /\ orphans = {}

\* The steps of buildAssembly itself, as opposed to those of the compilers.
AsmSteps == Timeout \/ AsmTimesOut \/ AsmDone \/ \E s \in Asm : AsmReceive(s)

Next ==
  \/ \E args \in {None, "no", "d", "other"} : Start(args)
  \/ \E t \in Tasks : downloadGziped(t)
  \/ ReceiveDownload \/ DownloadsDone
  \/ UntarBegin \/ UntarRefused \/ UntarEnds \/ UntarPanics
  \/ BuildLimine
  \/ \E matches \in SUBSET Asm : AsmStart(matches)
  \/ AsmSteps
  \/ \E s \in Asm : ccFile(s) \/ CcKilled(s) \/ OrphanEnds(s)
  \/ buildMain \/ linkKernel
  \/ ImageBegin \/ ImageLink \/ ImageLinked \/ xorriso \/ BiosInstall \/ ImageEnd
  \/ runQemu
  \/ Fails \/ Interrupt \/ Rest

\* Time passes and the process is scheduled; that a compiler or a server ever
\* answers is not assumed.
Spec == Init /\ [][Next]_vars /\ WF_vars(AsmSteps)

-----------------------------------------------------------------------------
(* Correctness properties                                                  *)

\* In what QEMU boots, every source file that this invocation found (the matches of
\* buildAssembly, and main.c) was compiled by it, whatever earlier invocations left
\* behind; only a compiler that outlived the timeout of an earlier one can interfere.
\* Of a source file that is gone, linkKernel may still link an old object file.
QemuRunsThisBuild ==
  p.pc = "qemu" =>
    /\ iso.bootable
    /\ \A s \in p.matches \cup {Main} : iso.kernel[s] \in {run, Late}

\* downloadManyGzipedTars lets main go on to unpack only when every missing archive
\* has been opened (a gzip header has arrived), each once.  Their bodies are read
\* later, and may still fail one by one.
UnpackOnlyAfterAllOpened ==
  [][p.pc = "download" /\ p'.pc = "untar" =>
       ToSet(p.downloads) = p.want /\ Len(p.downloads) = Cardinality(p.want)]_vars

\* createImage never stumbles over what an interrupted invocation left in
\* iso_root.
LeftoversNeverBlock ==
  p.pc = "links" => \A k \in p.links + 1 .. Len(ImageFiles) : ImageFiles[k] \notin root

\* buildAssembly returns, even if a compiler hangs.
AsmAlwaysReturns == [](p.pc = "asm" => <>(p.pc # "asm"))

=============================================================================
