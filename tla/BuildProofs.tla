----------------------------- MODULE BuildProofs -----------------------------
(***************************************************************************)
(* For any number of invocations, archives, .S files and image files: the  *)
(* source files an invocation finds are, in what QEMU boots, compiled by   *)
(* it, what an interrupted invocation leaves in iso_root never blocks the  *)
(* next one, and nothing is unpacked before every missing archive has been *)
(* opened.                                                                 *)
(***************************************************************************)
EXTENDS Build, FiniteSetTheorems, SequenceTheorems, TLAPS

Sources == Asm \cup {Main}

\* The steps after buildAssembly, those after the linker, after xorriso and after
\* the boot sector has been installed.
AfterAsm  == {"main", "link", "image", "links", "xorriso", "install", "clean", "qemu"}
Linked    == {"image", "links", "xorriso", "install", "clean", "qemu"}
Packed    == {"install", "clean", "qemu"}
Installed == {"clean", "qemu"}

Steps == {"idle", "download", "untar", "untar files", "mkdir", "asm"} \cup AfterAsm

Process ==
  [pc : Steps, args : {None, "no", "d", "other"}, want : SUBSET Tasks, fetching : SUBSET Tasks,
   doneChan : Seq([task : Tasks, outcome : {"ok", "no response", "no gzip"}]),
   doneUrls : Nat, downloads : Seq(Tasks), errs : BOOLEAN,
   matches : SUBSET Asm,
   cc : [Asm -> {None, "running", "ok", "error"}], spawned : Int, ok : BOOLEAN,
   ctxDone : BOOLEAN, links : Nat]

TypeInv ==
  /\ run \in Nat /\ p \in Process
  /\ obj \in [Sources -> Int] /\ kernel \in [Sources -> Int]
  /\ iso \in [kernel : [Sources -> Int], bootable : BOOLEAN]
  /\ orphans \subseteq Asm

\* Compiled by this invocation, or by a compiler that outlived an earlier one.
Fresh(n) == n \in {run, Late}

\* While buildAssembly collects the compilers: the count is that of the goroutines
\* not yet heard of, and without an error every other file has been compiled.
AsmInv ==
  /\ p.pc # "asm" => \A s \in Asm : p.cc[s] = None
  /\ p.spawned = Cardinality({s \in Asm : p.cc[s] # None})
  /\ \A s \in Asm : p.cc[s] = "ok" => Fresh(obj[s])
  /\ p.pc = "asm" /\ p.ok = TRUE => \A s \in p.matches : p.cc[s] = None => Fresh(obj[s])

\* What each later step can rely on.
CompiledInv ==
  /\ p.pc \in AfterAsm => \A s \in p.matches : Fresh(obj[s])
  /\ p.pc = "link" => Fresh(obj[Main])
  /\ p.pc \in Linked => \A s \in p.matches \cup {Main} : Fresh(kernel[s])
  /\ p.pc \in Packed => \A s \in p.matches \cup {Main} : Fresh(iso.kernel[s])
  /\ p.pc \in Installed => iso.bootable = TRUE

\* iso_root holds what this invocation has linked into it.
LinksInv ==
  /\ p.pc \notin {"links", "xorriso", "install", "clean", "qemu"} => p.links = 0
  /\ p.pc = "links" => p.links <= Len(ImageFiles)
                       /\ root = {ImageFiles[k] : k \in 1 .. p.links}

\* Without duplicates.
Distinct(q) == \A j, k \in 1 .. Len(q) : q[j] = q[k] => j = k

\* An archive is being fetched, or reported, or received, and only once.
DownloadInv ==
  p.pc = "download" =>
    /\ p.fetching \subseteq p.want
    /\ \A k \in 1 .. Len(p.doneChan) :
         p.doneChan[k].task \in p.want /\ p.doneChan[k].task \notin p.fetching
    /\ \A j, k \in 1 .. Len(p.doneChan) : p.doneChan[j].task = p.doneChan[k].task => j = k
    /\ \A k \in 1 .. Len(p.downloads) :
         p.downloads[k] \in p.want /\ p.downloads[k] \notin p.fetching
    /\ Distinct(p.downloads)
    /\ \A j \in 1 .. Len(p.downloads), k \in 1 .. Len(p.doneChan) :
         p.downloads[j] # p.doneChan[k].task
    /\ p.errs = FALSE => p.doneUrls = Len(p.downloads)

\* While its files are written, an archive is the first of the downloads.
UntarInv == p.pc = "untar files" => p.downloads # <<>>

BuildInv == TypeInv /\ AsmInv /\ CompiledInv /\ LinksInv /\ DownloadInv /\ UntarInv

-----------------------------------------------------------------------------
(* Queues                                                                  *)

\* An element more at the end,
LEMMA AppendFacts ==
  ASSUME NEW S, NEW q \in Seq(S), NEW e \in S
  PROVE  /\ Append(q, e) \in Seq(S)
         /\ Len(q) \in Nat /\ Len(Append(q, e)) = Len(q) + 1
         /\ \A k \in 1 .. Len(Append(q, e)) :
              \/ k \in 1 .. Len(q) /\ Append(q, e)[k] = q[k]
              \/ k = Len(q) + 1 /\ Append(q, e)[k] = e
OBVIOUS

\* and one less at the beginning.
LEMMA TailFacts ==
  ASSUME NEW S, NEW q \in Seq(S), q # <<>>
  PROVE  /\ Tail(q) \in Seq(S) /\ Head(q) \in S /\ Head(q) = q[1]
         /\ 1 \in 1 .. Len(q)
         /\ \A k \in 1 .. Len(Tail(q)) :
              k + 1 \in 1 .. Len(q) /\ k + 1 # 1 /\ Tail(q)[k] = q[k + 1]
OBVIOUS

\* No duplicates, and none with a new element.
LEMMA AppendDistinct ==
  ASSUME NEW S, NEW q \in Seq(S), NEW e \in S, Distinct(q), \A k \in 1 .. Len(q) : q[k] # e
  PROVE  Distinct(Append(q, e))
<1> SUFFICES ASSUME NEW j \in 1 .. Len(q) + 1, NEW k \in 1 .. Len(q) + 1,
                    Append(q, e)[j] = Append(q, e)[k]
             PROVE  j = k
  BY AppendFacts DEF Distinct
<1>1. CASE j \in 1 .. Len(q) /\ k \in 1 .. Len(q)
  BY <1>1 DEF Distinct
<1>2. CASE j = Len(q) + 1 /\ k \in 1 .. Len(q)
  BY <1>2
<1>3. CASE j \in 1 .. Len(q) /\ k = Len(q) + 1
  BY <1>3
<1>4. CASE j = Len(q) + 1 /\ k = Len(q) + 1
  BY <1>4
<1>5. \/ j \in 1 .. Len(q) \/ j = Len(q) + 1
  OBVIOUS
<1>6. \/ k \in 1 .. Len(q) \/ k = Len(q) + 1
  OBVIOUS
<1> QED BY <1>1, <1>2, <1>3, <1>4, <1>5, <1>6

-----------------------------------------------------------------------------
(* The process                                                             *)

\* The fields of a process, each with its type.
LEMMA ProcessFields ==
  ASSUME NEW q \in Process
  PROVE  /\ q.pc \in Steps /\ q.want \subseteq Tasks
         /\ q.fetching \subseteq Tasks
         /\ q.doneChan \in Seq([task : Tasks, outcome : {"ok", "no response", "no gzip"}])
         /\ q.matches \subseteq Asm
         /\ q.doneUrls \in Nat /\ q.downloads \in Seq(Tasks) /\ q.errs \in BOOLEAN
         /\ q.cc \in [Asm -> {None, "running", "ok", "error"}] /\ q.spawned \in Int
         /\ q.ok \in BOOLEAN /\ q.ctxDone \in BOOLEAN /\ q.links \in Nat
BY DEF Process

\* No process is a process without goroutines.
LEMMA IdleFields ==
  /\ Idle \in Process /\ Idle.pc = "idle" /\ Idle.links = 0 /\ Idle.spawned = 0
  /\ \A s \in Asm : Idle.cc[s] = None
<1>1. [s \in Asm |-> None] \in [Asm -> {None, "running", "ok", "error"}]
  OBVIOUS
<1>2. "idle" \in Steps
  BY DEF Steps
<1>3. Idle \in Process
  BY <1>1, <1>2 DEF Idle, Process
<1>4. Idle.pc = "idle" /\ Idle.links = 0 /\ Idle.spawned = 0 /\ Idle.cc = [s \in Asm |-> None]
  BY DEF Idle
<1> QED BY <1>3, <1>4

\* A step to another place changes nothing else of the process.
LEMMA GoToFields ==
  ASSUME p \in Process, NEW step \in Steps, GoTo(step)
  PROVE  /\ p' \in Process /\ p'.pc = step
         /\ p'.want = p.want /\ p'.fetching = p.fetching /\ p'.doneChan = p.doneChan
         /\ p'.doneUrls = p.doneUrls /\ p'.downloads = p.downloads /\ p'.errs = p.errs
         /\ p'.cc = p.cc /\ p'.spawned = p.spawned /\ p'.ok = p.ok /\ p'.links = p.links
         /\ p'.matches = p.matches
BY DEF GoTo, Process

\* The end of the process, wherever it was, keeps the invariant.
LEMMA ExitPreserves ==
  ASSUME TypeInv, Exit, UNCHANGED <<run, obj, kernel, iso>>, orphans' \subseteq Asm
  PROVE  BuildInv'
<1>1. /\ p' \in Process /\ p'.pc = "idle" /\ p'.links = 0 /\ p'.spawned = 0
      /\ \A s \in Asm : p'.cc[s] = None
  BY IdleFields DEF Exit
<1>2. TypeInv'
  BY <1>1 DEF TypeInv
<1>3. AsmInv'
  <2>1. {s \in Asm : p'.cc[s] # None} = {}
    BY <1>1
  <2>2. p'.spawned = Cardinality({s \in Asm : p'.cc[s] # None})
    BY <1>1, <2>1, FS_EmptySet
  <2>3. None # "ok"
    BY DEF None
  <2> QED BY <1>1, <2>2, <2>3 DEF AsmInv
<1>4. CompiledInv' /\ LinksInv' /\ DownloadInv' /\ UntarInv'
  BY <1>1 DEF CompiledInv, LinksInv, DownloadInv, UntarInv, AfterAsm, Linked, Packed, Installed
<1> QED BY <1>2, <1>3, <1>4 DEF BuildInv

-----------------------------------------------------------------------------
(* The downloads                                                           *)

\* main finds out what is missing.
LEMMA StartPreserves ==
  ASSUME BuildInv, NEW args \in {None, "no", "d", "other"}, Start(args)
  PROVE  BuildInv'
<1> DEFINE want == {t \in Tasks : dir[t] = "absent"}
<1>1. /\ p' = [Idle EXCEPT !.pc = "download", !.args = args, !.want = want, !.fetching = want]
      /\ run' = run + 1 /\ UNCHANGED <<obj, kernel, iso, orphans>>
  BY DEF Start, disk
<1>2. Idle \in Process /\ "download" \in Steps /\ want \in SUBSET Tasks
  BY IdleFields DEF Steps
<1> HIDE DEF want
<1>3. /\ p' \in Process /\ p'.pc = "download" /\ p'.want = want /\ p'.fetching = want
      /\ p'.cc = Idle.cc /\ p'.spawned = Idle.spawned /\ p'.links = Idle.links
      /\ p'.doneChan = Idle.doneChan /\ p'.downloads = Idle.downloads
      /\ p'.doneUrls = Idle.doneUrls
  BY <1>1, <1>2 DEF Process
<1>4. TypeInv'
  BY <1>1, <1>3 DEF BuildInv, TypeInv
<1>5. AsmInv'
  <2>1. {s \in Asm : p'.cc[s] # None} = {}
    BY <1>3, IdleFields
  <2>2. p'.spawned = Cardinality({s \in Asm : p'.cc[s] # None})
    BY <1>3, <2>1, FS_EmptySet, IdleFields
  <2>3. None # "ok"
    BY DEF None
  <2> QED BY <1>3, <2>2, <2>3, IdleFields DEF AsmInv
<1>6. CompiledInv' /\ LinksInv' /\ UntarInv'
  BY <1>3, IdleFields DEF CompiledInv, LinksInv, UntarInv, AfterAsm, Linked, Packed, Installed
<1>7. Idle.doneChan = <<>> /\ Idle.downloads = <<>> /\ Idle.doneUrls = 0
  BY DEF Idle
<1>8. DownloadInv'
  BY <1>3, <1>7 DEF DownloadInv, Distinct
<1> QED BY <1>4, <1>5, <1>6, <1>8 DEF BuildInv

\* The report of an archive that is not fetched any more.
LEMMA downloadGzipedPreserves ==
  ASSUME BuildInv, NEW t \in Tasks, downloadGziped(t)
  PROVE  BuildInv'
<1>1. PICK outcome \in {"ok", "no response", "no gzip"} :
        p' = [p EXCEPT !.fetching = @ \ {t}, !.doneChan = Append(@, Result(t, outcome))]
  BY DEF downloadGziped
<1>2. UNCHANGED <<run, obj, kernel, iso, root, orphans>> /\ t \in p.fetching
  BY DEF downloadGziped, disk
<1> DEFINE r == Result(t, outcome)
           Reports == [task : Tasks, outcome : {"ok", "no response", "no gzip"}]
<1>3. r \in Reports /\ r.task = t
  BY DEF Result
<1>4. p \in Process /\ p.doneChan \in Seq(Reports) /\ p.fetching \subseteq Tasks
      /\ p.downloads \in Seq(Tasks)
  BY ProcessFields DEF BuildInv, TypeInv
<1> HIDE DEF r, Reports
<1>5. /\ Append(p.doneChan, r) \in Seq(Reports)
      /\ Len(p.doneChan) \in Nat /\ Len(Append(p.doneChan, r)) = Len(p.doneChan) + 1
      /\ \A k \in 1 .. Len(Append(p.doneChan, r)) :
           \/ k \in 1 .. Len(p.doneChan) /\ Append(p.doneChan, r)[k] = p.doneChan[k]
           \/ k = Len(p.doneChan) + 1 /\ Append(p.doneChan, r)[k] = r
  BY <1>3, <1>4, AppendFacts, Zenon
<1>6. /\ p' \in Process /\ p'.pc = p.pc /\ p'.want = p.want /\ p'.fetching = p.fetching \ {t}
      /\ p'.doneChan = Append(p.doneChan, r) /\ p'.doneUrls = p.doneUrls
      /\ p'.downloads = p.downloads /\ p'.errs = p.errs /\ p'.cc = p.cc
      /\ p'.spawned = p.spawned /\ p'.ok = p.ok /\ p'.links = p.links /\ p'.matches = p.matches
  BY <1>1, <1>4, <1>5 DEF Process, Reports, r
<1>7. TypeInv' /\ AsmInv' /\ CompiledInv' /\ LinksInv' /\ UntarInv'
  BY <1>2, <1>6 DEF BuildInv, TypeInv, AsmInv, CompiledInv, LinksInv, UntarInv, Fresh
<1>8. DownloadInv'
  <2> SUFFICES ASSUME p'.pc = "download" PROVE DownloadInv'
    BY DEF DownloadInv
  <2>1. p.pc = "download" /\ DownloadInv /\ t \in p.fetching
    BY <1>2, <1>6 DEF BuildInv
  <2> DEFINE n == Len(p.doneChan)
  <2>2. \A k \in 1 .. Len(p'.doneChan) :
          \/ k \in 1 .. n /\ p'.doneChan[k].task = p.doneChan[k].task
          \/ k = n + 1 /\ p'.doneChan[k].task = t
    BY <1>3, <1>5, <1>6, Zenon
  <2> HIDE DEF n
  <2>3. \A k \in 1 .. n : p.doneChan[k].task \in p.want /\ p.doneChan[k].task \notin p.fetching
    BY <2>1 DEF DownloadInv, n
  <2>4. \A k \in 1 .. Len(p'.doneChan) :
          p'.doneChan[k].task \in p'.want /\ p'.doneChan[k].task \notin p'.fetching
    BY <1>6, <2>1, <2>2, <2>3, Zenon DEF DownloadInv
  <2>5. \A j, k \in 1 .. Len(p'.doneChan) : p'.doneChan[j].task = p'.doneChan[k].task => j = k
    <3>1. \A j, k \in 1 .. n : p.doneChan[j].task = p.doneChan[k].task => j = k
      BY <2>1 DEF DownloadInv, n
    <3> SUFFICES ASSUME NEW j \in 1 .. Len(p'.doneChan), NEW k \in 1 .. Len(p'.doneChan),
                        p'.doneChan[j].task = p'.doneChan[k].task
                 PROVE  j = k
      BY Zenon
    <3>2. CASE j \in 1 .. n /\ k \in 1 .. n /\ p.doneChan[j].task = p.doneChan[k].task
      BY <3>1, <3>2, Zenon
    <3>3. CASE j = n + 1 /\ k = n + 1
      BY <3>3
    <3>4. \/ j \in 1 .. n /\ p'.doneChan[j].task = p.doneChan[j].task
          \/ j = n + 1 /\ p'.doneChan[j].task = t
      BY <2>2, Zenon
    <3>5. \/ k \in 1 .. n /\ p'.doneChan[k].task = p.doneChan[k].task
          \/ k = n + 1 /\ p'.doneChan[k].task = t
      BY <2>2, Zenon
    <3> QED BY <2>1, <2>3, <3>2, <3>3, <3>4, <3>5, Zenon
  <2>6. \A j \in 1 .. Len(p'.downloads), k \in 1 .. Len(p'.doneChan) :
          p'.downloads[j] # p'.doneChan[k].task
    <3>1. \A j \in 1 .. Len(p.downloads), k \in 1 .. n : p.downloads[j] # p.doneChan[k].task
      BY <2>1 DEF DownloadInv, n
    <3>2. \A j \in 1 .. Len(p.downloads) : p.downloads[j] # t
      BY <2>1 DEF DownloadInv
    <3> QED BY <1>6, <2>2, <3>1, <3>2, Zenon
  <2> QED BY <1>6, <2>1, <2>4, <2>5, <2>6 DEF DownloadInv
<1> QED BY <1>7, <1>8 DEF BuildInv

\* A report is received: the archive is opened, or there is an error.
LEMMA ReceiveDownloadPreserves ==
  ASSUME BuildInv, ReceiveDownload
  PROVE  BuildInv'
<1> DEFINE Reports == [task : Tasks, outcome : {"ok", "no response", "no gzip"}]
           result == Head(p.doneChan)
           rest == [p EXCEPT !.doneChan = Tail(@), !.doneUrls = @ + 1]
<1>1. UNCHANGED <<run, obj, kernel, iso, root, orphans>> /\ p.pc = "download" /\ p.doneChan # <<>>
  BY DEF ReceiveDownload, disk
<1>2. /\ p \in Process /\ p.doneChan \in Seq(Reports) /\ p.downloads \in Seq(Tasks)
      /\ p.doneUrls \in Nat /\ p.errs \in BOOLEAN
  BY ProcessFields DEF BuildInv, TypeInv
<1> HIDE DEF Reports
<1>12. result \in Reports
  BY <1>1, <1>2, TailFacts, Zenon
<1>3. result.outcome \in {"ok", "no response", "no gzip"} /\ result.task \in Tasks
  BY <1>12 DEF Reports
<1>4. /\ Tail(p.doneChan) \in Seq(Reports) /\ result = p.doneChan[1] /\ 1 \in 1 .. Len(p.doneChan)
      /\ \A k \in 1 .. Len(Tail(p.doneChan)) :
           k + 1 \in 1 .. Len(p.doneChan) /\ k + 1 # 1 /\ Tail(p.doneChan)[k] = p.doneChan[k + 1]
  BY <1>1, <1>2, TailFacts, Zenon
<1>5. /\ rest \in Process /\ rest.pc = p.pc /\ rest.want = p.want /\ rest.fetching = p.fetching
      /\ rest.doneChan = Tail(p.doneChan) /\ rest.doneUrls = p.doneUrls + 1
      /\ rest.downloads = p.downloads /\ rest.errs = p.errs /\ rest.cc = p.cc
      /\ rest.spawned = p.spawned /\ rest.ok = p.ok /\ rest.links = p.links
      /\ rest.matches = p.matches
  <2>1. p.doneUrls + 1 \in Nat
    BY <1>2
  <2>2. \A q \in Seq(Reports), n \in Nat :
          LET r == [p EXCEPT !.doneChan = q, !.doneUrls = n]
          IN  /\ r \in Process /\ r.pc = p.pc /\ r.want = p.want /\ r.fetching = p.fetching
              /\ r.doneChan = q /\ r.doneUrls = n
              /\ r.downloads = p.downloads /\ r.errs = p.errs /\ r.cc = p.cc
              /\ r.spawned = p.spawned /\ r.ok = p.ok /\ r.links = p.links /\ r.matches = p.matches
    BY <1>2 DEF Process, Reports
  <2> QED BY <1>4, <2>1, <2>2, Zenon
<1>6. /\ result.outcome = "ok" => p' = [rest EXCEPT !.downloads = Append(@, result.task)]
      /\ result.outcome = "no gzip" => p' = [rest EXCEPT !.errs = TRUE]
      /\ result.outcome = "no response" => Exit
  BY DEF ReceiveDownload
<1> HIDE DEF result, rest
<1>7. DownloadInv
  BY DEF BuildInv
<1>8. /\ \A k \in 1 .. Len(Tail(p.doneChan)) :
           /\ Tail(p.doneChan)[k].task \in p.want
           /\ Tail(p.doneChan)[k].task \notin p.fetching
           /\ Tail(p.doneChan)[k].task # result.task
      /\ \A j, k \in 1 .. Len(Tail(p.doneChan)) :
           Tail(p.doneChan)[j].task = Tail(p.doneChan)[k].task => j = k
      /\ \A j \in 1 .. Len(p.downloads), k \in 1 .. Len(Tail(p.doneChan)) :
           p.downloads[j] # Tail(p.doneChan)[k].task
  <2>1. \A k \in 1 .. Len(p.doneChan) :
          p.doneChan[k].task \in p.want /\ p.doneChan[k].task \notin p.fetching
    BY <1>1, <1>7 DEF DownloadInv
  <2>2. \A j, k \in 1 .. Len(p.doneChan) : p.doneChan[j].task = p.doneChan[k].task => j = k
    BY <1>1, <1>7 DEF DownloadInv
  <2>3. \A j \in 1 .. Len(p.downloads), k \in 1 .. Len(p.doneChan) :
          p.downloads[j] # p.doneChan[k].task
    BY <1>1, <1>7 DEF DownloadInv
  <2>4. \A k \in 1 .. Len(Tail(p.doneChan)) :
           /\ Tail(p.doneChan)[k].task \in p.want
           /\ Tail(p.doneChan)[k].task \notin p.fetching
           /\ Tail(p.doneChan)[k].task # result.task
    BY <1>4, <2>1, <2>2, Zenon
  <2>5. \A j, k \in 1 .. Len(Tail(p.doneChan)) : j + 1 = k + 1 => j = k
    <3>1. Len(Tail(p.doneChan)) \in Nat
      BY <1>4
    <3> QED BY <3>1
  <2>6. \A j, k \in 1 .. Len(Tail(p.doneChan)) :
           Tail(p.doneChan)[j].task = Tail(p.doneChan)[k].task => j = k
    <3> SUFFICES ASSUME NEW j \in 1 .. Len(Tail(p.doneChan)), NEW k \in 1 .. Len(Tail(p.doneChan)),
                        Tail(p.doneChan)[j].task = Tail(p.doneChan)[k].task
                 PROVE  j = k
      BY Zenon
    <3>1. /\ j + 1 \in 1 .. Len(p.doneChan) /\ k + 1 \in 1 .. Len(p.doneChan)
          /\ p.doneChan[j + 1].task = p.doneChan[k + 1].task
      BY <1>4, Zenon
    <3> QED BY <2>2, <2>5, <3>1, Zenon
  <2>7. \A j \in 1 .. Len(p.downloads), k \in 1 .. Len(Tail(p.doneChan)) :
           p.downloads[j] # Tail(p.doneChan)[k].task
    BY <1>4, <2>3, Zenon
  <2> QED BY <2>4, <2>6, <2>7
<1>9. CASE result.outcome = "ok"
  <2> DEFINE task == result.task
  <2>1. task \in p.want /\ task \notin p.fetching /\ \A j \in 1 .. Len(p.downloads) : p.downloads[j] # task
    BY <1>1, <1>4, <1>7, Zenon DEF DownloadInv
  <2> HIDE DEF task
  <2>2. /\ Append(p.downloads, task) \in Seq(Tasks)
        /\ Len(p.downloads) \in Nat /\ Len(Append(p.downloads, task)) = Len(p.downloads) + 1
        /\ \A k \in 1 .. Len(Append(p.downloads, task)) :
             \/ k \in 1 .. Len(p.downloads) /\ Append(p.downloads, task)[k] = p.downloads[k]
             \/ k = Len(p.downloads) + 1 /\ Append(p.downloads, task)[k] = task
    BY <1>2, <1>3, AppendFacts, Zenon DEF task
  <2>3. /\ p' \in Process /\ p'.pc = p.pc /\ p'.want = p.want /\ p'.fetching = p.fetching
        /\ p'.doneChan = Tail(p.doneChan) /\ p'.doneUrls = p.doneUrls + 1
        /\ p'.downloads = Append(p.downloads, task) /\ p'.errs = p.errs /\ p'.cc = p.cc
        /\ p'.spawned = p.spawned /\ p'.ok = p.ok /\ p'.links = p.links /\ p'.matches = p.matches
    <3>1. p' = [rest EXCEPT !.downloads = Append(p.downloads, task)]
      BY <1>5, <1>6, <1>9, Zenon DEF task
    <3>2. p'.downloads = Append(p.downloads, task) /\ p' \in Process
      BY <1>5, <2>2, <3>1 DEF Process
    <3> QED BY <1>5, <3>1, <3>2 DEF Process
  <2>4. TypeInv' /\ AsmInv' /\ CompiledInv' /\ LinksInv' /\ UntarInv'
    BY <1>1, <2>3 DEF BuildInv, TypeInv, AsmInv, CompiledInv, LinksInv, UntarInv, Fresh
  <2>5. \A k \in 1 .. Len(p'.downloads) :
          p'.downloads[k] \in p'.want /\ p'.downloads[k] \notin p'.fetching
    <3>1. \A k \in 1 .. Len(p.downloads) :
            p.downloads[k] \in p.want /\ p.downloads[k] \notin p.fetching
      BY <1>1, <1>7 DEF DownloadInv
    <3>2. \A k \in 1 .. Len(Append(p.downloads, task)) :
            /\ Append(p.downloads, task)[k] \in p.want
            /\ Append(p.downloads, task)[k] \notin p.fetching
      BY <2>1, <2>2, <3>1, Zenon
    <3> QED BY <2>3, <3>2, Zenon
  <2>6. Distinct(p'.downloads)
    <3>1. Distinct(Append(p.downloads, task))
      BY <1>1, <1>2, <1>3, <1>7, <2>1, AppendDistinct, Zenon DEF DownloadInv, task
    <3> QED BY <2>3, <3>1, Zenon
  <2>7. \A j \in 1 .. Len(p'.downloads), k \in 1 .. Len(p'.doneChan) :
          p'.downloads[j] # p'.doneChan[k].task
    <3>1. \A k \in 1 .. Len(Tail(p.doneChan)) : Tail(p.doneChan)[k].task # task
      BY <1>8 DEF task
    <3>2. \A j \in 1 .. Len(Append(p.downloads, task)), k \in 1 .. Len(Tail(p.doneChan)) :
            Append(p.downloads, task)[j] # Tail(p.doneChan)[k].task
      BY <1>8, <2>2, <3>1, Zenon
    <3> QED BY <2>3, <3>2, Zenon
  <2>8. p'.errs = FALSE => p'.doneUrls = Len(p'.downloads)
    BY <1>1, <1>7, <2>2, <2>3 DEF DownloadInv
  <2>9. DownloadInv'
    BY <1>1, <1>7, <1>8, <2>3, <2>5, <2>6, <2>7, <2>8 DEF DownloadInv
  <2> QED BY <2>4, <2>9 DEF BuildInv
<1>10. CASE result.outcome = "no gzip"
  <2>1. /\ p' \in Process /\ p'.pc = p.pc /\ p'.want = p.want /\ p'.fetching = p.fetching
        /\ p'.doneChan = Tail(p.doneChan)
        /\ p'.downloads = p.downloads /\ p'.errs = TRUE /\ p'.cc = p.cc
        /\ p'.spawned = p.spawned /\ p'.ok = p.ok /\ p'.links = p.links /\ p'.matches = p.matches
    BY <1>5, <1>6, <1>10 DEF Process
  <2>2. TypeInv' /\ AsmInv' /\ CompiledInv' /\ LinksInv' /\ UntarInv'
    BY <1>1, <2>1 DEF BuildInv, TypeInv, AsmInv, CompiledInv, LinksInv, UntarInv, Fresh
  <2>3. DownloadInv'
    <3>1. p'.errs # FALSE
      BY <2>1
    <3>2. /\ p.fetching \subseteq p.want /\ Distinct(p.downloads)
          /\ \A k \in 1 .. Len(p.downloads) :
               p.downloads[k] \in p.want /\ p.downloads[k] \notin p.fetching
      BY <1>1, <1>7 DEF DownloadInv
    <3>3. \A k \in 1 .. Len(p'.doneChan) :
            p'.doneChan[k].task \in p'.want /\ p'.doneChan[k].task \notin p'.fetching
      BY <1>8, <2>1
    <3>4. \A j, k \in 1 .. Len(p'.doneChan) : p'.doneChan[j].task = p'.doneChan[k].task => j = k
      <4>1. \A j, k \in 1 .. Len(Tail(p.doneChan)) :
              Tail(p.doneChan)[j].task = Tail(p.doneChan)[k].task => j = k
        BY <1>8
      <4>2. p'.doneChan = Tail(p.doneChan)
        BY <2>1
      <4> QED BY <4>1, <4>2, Zenon
    <3>5. \A j \in 1 .. Len(p'.downloads), k \in 1 .. Len(p'.doneChan) :
            p'.downloads[j] # p'.doneChan[k].task
      BY <1>8, <2>1
    <3>6. /\ p'.fetching \subseteq p'.want /\ Distinct(p'.downloads)
          /\ \A k \in 1 .. Len(p'.downloads) :
               p'.downloads[k] \in p'.want /\ p'.downloads[k] \notin p'.fetching
      BY <2>1, <3>2, Zenon
    <3> QED BY <3>1, <3>3, <3>4, <3>5, <3>6 DEF DownloadInv
  <2> QED BY <2>2, <2>3 DEF BuildInv
<1>11. CASE result.outcome = "no response"
  <2>1. Exit /\ UNCHANGED <<run, obj, kernel, iso>> /\ orphans' \subseteq Asm
    BY <1>1, <1>6, <1>11 DEF BuildInv, TypeInv
  <2> QED BY <2>1, ExitPreserves DEF BuildInv
<1> QED BY <1>3, <1>9, <1>10, <1>11 DEF result

-----------------------------------------------------------------------------
(* The steps outside the downloads and buildAssembly                       *)

\* A step of the process after the downloads that is none of buildAssembly.
LEMMA StepPreserves ==
  ASSUME BuildInv, p' \in Process, p'.pc \notin {"download", "asm"}, p.pc # "asm",
         p'.cc = p.cc, p'.spawned = p.spawned,
         run' = run, \A s \in Asm : obj'[s] = obj[s],
         obj' \in [Sources -> Int], kernel' \in [Sources -> Int],
         iso' \in [kernel : [Sources -> Int], bootable : BOOLEAN], UNCHANGED orphans,
         CompiledInv', LinksInv', UntarInv'
  PROVE  BuildInv'
<1>1. TypeInv'
  BY DEF BuildInv, TypeInv
<1>2. AsmInv'
  BY DEF BuildInv, AsmInv, Fresh
<1>3. DownloadInv'
  BY DEF DownloadInv
<1> QED BY <1>1, <1>2, <1>3 DEF BuildInv

\* The unpacking changes nothing that the invariant is about.
LEMMA UnpackPreserves ==
  ASSUME BuildInv, p' \in Process, p.pc \in {"untar", "untar files"},
         p'.pc \in {"untar", "untar files", "mkdir"},
         p'.cc = p.cc, p'.spawned = p.spawned, p'.links = p.links,
         UNCHANGED <<run, obj, kernel, iso, orphans>>, UntarInv'
  PROVE  BuildInv'
<1>1. CompiledInv' /\ LinksInv'
  BY DEF BuildInv, CompiledInv, LinksInv, AfterAsm, Linked, Packed, Installed
<1>2. /\ obj' \in [Sources -> Int] /\ kernel' \in [Sources -> Int]
      /\ iso' \in [kernel : [Sources -> Int], bootable : BOOLEAN]
  BY DEF BuildInv, TypeInv
<1> QED BY <1>1, <1>2, StepPreserves

\* From the downloads to the compilers.
LEMMA UntarPreserves ==
  ASSUME BuildInv,
         DownloadsDone \/ UntarBegin \/ UntarRefused \/ UntarEnds \/ UntarPanics \/ BuildLimine
  PROVE  BuildInv'
<1>1. p \in Process /\ p.downloads \in Seq(Tasks) /\ TypeInv /\ orphans \subseteq Asm
  BY ProcessFields DEF BuildInv, TypeInv
<1>2. ASSUME Exit, UNCHANGED <<run, obj, kernel, iso, orphans>>
      PROVE  BuildInv'
  BY <1>1, <1>2, ExitPreserves
<1>3. "untar" \in Steps /\ "untar files" \in Steps /\ "mkdir" \in Steps
  BY DEF Steps
<1>4. CASE DownloadsDone
  <2>1. CASE Exit
    BY <1>2, <1>4, <2>1 DEF DownloadsDone, disk
  <2>2. CASE GoTo("untar")
    <3>1. /\ p' \in Process /\ p'.pc = "untar" /\ p'.cc = p.cc /\ p'.spawned = p.spawned
          /\ p'.links = p.links /\ p'.matches = p.matches
      BY <1>1, <1>3, <2>2, GoToFields
    <3>2. p.pc = "download" /\ UNCHANGED <<run, obj, kernel, iso, orphans>>
      BY <1>4 DEF DownloadsDone, disk
    <3>3. CompiledInv' /\ LinksInv' /\ UntarInv'
      BY <3>1, <3>2 DEF BuildInv, CompiledInv, LinksInv, UntarInv, AfterAsm, Linked, Packed, Installed
    <3>4. /\ obj' \in [Sources -> Int] /\ kernel' \in [Sources -> Int]
          /\ iso' \in [kernel : [Sources -> Int], bootable : BOOLEAN]
      BY <3>2 DEF BuildInv, TypeInv
    <3> QED BY <3>1, <3>2, <3>3, <3>4, StepPreserves
  <2> QED BY <1>4, <2>1, <2>2 DEF DownloadsDone
<1>5. CASE UntarBegin
  <2>1. /\ p' \in Process /\ p'.pc = "untar files" /\ p'.cc = p.cc /\ p'.spawned = p.spawned
        /\ p'.links = p.links /\ p'.matches = p.matches /\ p'.downloads = p.downloads
    BY <1>1, <1>3, <1>5, GoToFields DEF UntarBegin
  <2>2. p.pc = "untar" /\ UntarInv' /\ UNCHANGED <<run, obj, kernel, iso, orphans>>
    BY <1>5, <2>1 DEF UntarBegin, UntarInv
  <2> QED BY <2>1, <2>2, UnpackPreserves
<1>7. CASE UntarRefused
  <2>1. p.pc = "untar" /\ p.downloads # <<>> /\ p' = [p EXCEPT !.downloads = Tail(@)]
        /\ UNCHANGED <<run, obj, kernel, iso, orphans>>
    BY <1>7 DEF UntarRefused, disk
  <2>2. Tail(p.downloads) \in Seq(Tasks)
    BY <1>1, <2>1, TailFacts
  <2>3. /\ p' \in Process /\ p'.pc = p.pc /\ p'.cc = p.cc /\ p'.spawned = p.spawned
        /\ p'.links = p.links /\ p'.matches = p.matches
    BY <1>1, <2>1, <2>2 DEF Process
  <2>4. UntarInv'
    BY <2>1, <2>3 DEF UntarInv
  <2> QED BY <2>1, <2>3, <2>4, UnpackPreserves
<1>8. CASE UntarEnds
  <2>1. p.pc = "untar files" /\ p' = [p EXCEPT !.pc = "untar", !.downloads = Tail(@)]
        /\ UNCHANGED <<run, obj, kernel, iso, orphans>>
    BY <1>8 DEF UntarEnds
  <2>2. p.downloads # <<>>
    BY <2>1 DEF BuildInv, UntarInv
  <2>3. Tail(p.downloads) \in Seq(Tasks)
    BY <1>1, <2>2, TailFacts
  <2>4. /\ p' \in Process /\ p'.pc = "untar" /\ p'.cc = p.cc /\ p'.spawned = p.spawned
        /\ p'.links = p.links /\ p'.matches = p.matches
    BY <1>1, <1>3, <2>1, <2>3 DEF Process
  <2>5. UntarInv'
    BY <2>4 DEF UntarInv
  <2> QED BY <2>1, <2>4, <2>5, UnpackPreserves
<1>9. CASE UntarPanics
  BY <1>2, <1>9 DEF UntarPanics, disk
<1>10. CASE BuildLimine
  <2>1. CASE GoTo("mkdir")
    <3>1. /\ p' \in Process /\ p'.pc = "mkdir" /\ p'.cc = p.cc /\ p'.spawned = p.spawned
          /\ p'.links = p.links /\ p'.matches = p.matches
      BY <1>1, <1>3, <2>1, GoToFields
    <3>2. p.pc = "untar" /\ UntarInv' /\ UNCHANGED <<run, obj, kernel, iso, orphans>>
      BY <1>10, <3>1 DEF BuildLimine, UntarInv
    <3> QED BY <3>1, <3>2, UnpackPreserves
  <2>2. CASE Exit
    BY <1>2, <1>10, <2>2 DEF BuildLimine
  <2> QED BY <1>10, <2>1, <2>2 DEF BuildLimine
<1> QED BY <1>4, <1>5, <1>7, <1>8, <1>9, <1>10

-----------------------------------------------------------------------------
(* buildAssembly                                                           *)

\* Inside buildAssembly only AsmInv is at stake.
LEMMA AsmStepPreserves ==
  ASSUME BuildInv, p' \in Process, p'.pc = "asm", p'.links = 0, run' = run,
         obj' \in [Sources -> Int], UNCHANGED <<kernel, iso, orphans>>, AsmInv'
  PROVE  BuildInv'
BY DEF BuildInv, TypeInv, CompiledInv, LinksInv, DownloadInv, UntarInv, AfterAsm, Linked, Packed,
       Installed

\* A compiler is started for every source file.
LEMMA AsmStartPreserves ==
  ASSUME BuildInv, NEW matches \in SUBSET Asm, AsmStart(matches)
  PROVE  BuildInv'
<1> DEFINE cc == [s \in Asm |-> IF s \in matches THEN "running" ELSE None]
           n == Cardinality(matches)
<1>1. p \in Process /\ p.pc = "mkdir" /\ UNCHANGED <<run, obj, kernel, iso, orphans>>
  BY DEF BuildInv, TypeInv, AsmStart, disk
<1>2. p.links = 0 /\ obj' \in [Sources -> Int]
  BY <1>1 DEF BuildInv, LinksInv, TypeInv
<1>3. /\ cc \in [Asm -> {None, "running", "ok", "error"}] /\ n \in Int /\ "asm" \in Steps
      /\ p' = [p EXCEPT !.pc = "asm", !.matches = matches, !.cc = cc, !.spawned = n]
  <2>1. IsFiniteSet(matches)
    BY BuildConstants, FS_Subset
  <2> QED BY <2>1, FS_CardinalityType DEF Steps, AsmStart
<1>4. \A s \in Asm : /\ cc[s] # "ok"
                     /\ s \in matches => cc[s] # None
                     /\ s \notin matches => cc[s] = None
  BY DEF None
<1> HIDE DEF cc, n
<1>5. /\ p' \in Process /\ p'.pc = "asm" /\ p'.links = p.links
      /\ p'.spawned = n /\ p'.cc = cc /\ p'.matches = matches
  BY <1>1, <1>3 DEF Process
<1>6. {s \in Asm : p'.cc[s] # None} = matches
  BY <1>4, <1>5
<1>7. AsmInv'
  BY <1>4, <1>5, <1>6 DEF AsmInv, n
<1> QED BY <1>1, <1>2, <1>5, <1>7, AsmStepPreserves

\* A compiler ends, by itself or because it is killed.
LEMMA CompilerPreserves ==
  ASSUME BuildInv, NEW s \in Asm, ccFile(s) \/ CcKilled(s)
  PROVE  BuildInv'
<1>1. /\ p \in Process /\ p.cc \in [Asm -> {None, "running", "ok", "error"}]
      /\ p.cc[s] = "running" /\ run \in Nat /\ obj \in [Sources -> Int] /\ s \in Sources
  BY ProcessFields DEF BuildInv, TypeInv, ccFile, CcKilled, Sources
<1>2. p.pc = "asm" /\ p.links = 0
  BY <1>1 DEF BuildInv, AsmInv, LinksInv, None
<1>3. UNCHANGED <<run, kernel, iso, orphans>>
  BY DEF ccFile, CcKilled, disk
<1>4. PICK end \in {"ok", "error"} :
        /\ p' = [p EXCEPT !.cc[s] = end]
        /\ obj' \in {obj, [obj EXCEPT ![s] = Absent], [obj EXCEPT ![s] = run]}
        /\ end = "ok" => obj' = [obj EXCEPT ![s] = run]
  BY DEF ccFile, CcKilled, disk
<1>5. [p.cc EXCEPT ![s] = end] \in [Asm -> {None, "running", "ok", "error"}]
  BY <1>1
<1>6. /\ p' \in Process /\ p'.pc = p.pc /\ p'.links = p.links
      /\ p'.matches = p.matches /\ p'.spawned = p.spawned
      /\ p'.ok = p.ok /\ p'.cc = [p.cc EXCEPT ![s] = end]
  <2>1. \A cc \in [Asm -> {None, "running", "ok", "error"}] :
          LET q == [p EXCEPT !.cc = cc]
          IN  /\ q \in Process /\ q.pc = p.pc /\ q.links = p.links
              /\ q.matches = p.matches /\ q.spawned = p.spawned
              /\ q.ok = p.ok /\ q.cc = cc
    BY <1>1 DEF Process
  <2>2. p' = [p EXCEPT !.cc = [p.cc EXCEPT ![s] = end]]
    BY <1>4
  <2> QED BY <1>5, <2>1, <2>2, Zenon
<1>7. p'.cc[s] = end /\ \A r \in Asm \ {s} : p'.cc[r] = p.cc[r]
  BY <1>1, <1>6
<1>8. obj' \in [Sources -> Int] /\ \A r \in Asm \ {s} : obj'[r] = obj[r]
  BY <1>1, <1>4 DEF Sources, Absent
<1>9. end = "ok" => obj'[s] = run
  BY <1>1, <1>4
<1>10. end # None /\ "running" # None
  BY DEF None
<1>11. {r \in Asm : p'.cc[r] # None} = {r \in Asm : p.cc[r] # None}
  BY <1>1, <1>7, <1>10
<1>12. AsmInv'
  <2>1. p'.spawned = Cardinality({r \in Asm : p'.cc[r] # None})
    BY <1>6, <1>11 DEF BuildInv, AsmInv
  <2>2. \A r \in Asm : p'.cc[r] = "ok" => Fresh(obj[r])' 
    BY <1>3, <1>7, <1>8, <1>9 DEF BuildInv, AsmInv, Fresh
  <2>3. p'.ok = TRUE => \A r \in p'.matches : p'.cc[r] = None => Fresh(obj[r])'
    <3>1. p.matches \subseteq Asm
      BY <1>1, ProcessFields
    <3> QED BY <1>2, <1>3, <1>6, <1>7, <1>8, <1>10, <3>1 DEF BuildInv, AsmInv, Fresh
  <2>4. p'.pc = "asm"
    BY <1>2, <1>6
  <2> QED BY <2>1, <2>2, <2>3, <2>4 DEF AsmInv
<1> QED BY <1>2, <1>3, <1>6, <1>8, <1>12, AsmStepPreserves

\* A goroutine is heard of.
LEMMA AsmReceivePreserves ==
  ASSUME BuildInv, NEW s \in Asm, AsmReceive(s)
  PROVE  BuildInv'
<1>1. /\ p \in Process /\ p.cc \in [Asm -> {None, "running", "ok", "error"}] /\ p.spawned \in Int
      /\ p.ok \in BOOLEAN /\ p.pc = "asm" /\ p.cc[s] \in {"ok", "error"}
  BY ProcessFields DEF BuildInv, TypeInv, AsmReceive
<1>2. UNCHANGED <<run, obj, kernel, iso, orphans>> /\ p.links = 0 /\ obj \in [Sources -> Int]
  BY <1>1 DEF AsmReceive, disk, BuildInv, LinksInv, TypeInv
<1>3. PICK ok \in BOOLEAN : ok = (p.ok /\ p.cc[s] = "ok")
  BY Zenon
<1>4. ok = TRUE => p.ok = TRUE /\ p.cc[s] = "ok"
  BY <1>1, <1>3, Zenon
<1>5. [p.cc EXCEPT ![s] = None] \in [Asm -> {None, "running", "ok", "error"}] /\ p.spawned - 1 \in Int
  BY <1>1
<1>6. /\ p' \in Process /\ p'.pc = p.pc /\ p'.links = p.links
      /\ p'.matches = p.matches /\ p'.spawned = p.spawned - 1
      /\ p'.ok = ok /\ p'.cc = [p.cc EXCEPT ![s] = None]
  <2> DEFINE cc == [p.cc EXCEPT ![s] = None]
             n == p.spawned - 1
  <2>1. p' = [p EXCEPT !.ok = p.ok /\ p.cc[s] = "ok", !.cc = cc, !.spawned = n]
    BY DEF AsmReceive
  <2>2. cc \in [Asm -> {None, "running", "ok", "error"}] /\ n \in Int
    BY <1>5
  <2> HIDE DEF cc, n
  <2>3. p' = [p EXCEPT !.ok = ok, !.cc = cc, !.spawned = n]
    BY <1>3, <2>1, Zenon
  <2>4. /\ p' \in Process /\ p'.pc = p.pc /\ p'.links = p.links
      /\ p'.matches = p.matches /\ p'.spawned = n
        /\ p'.ok = ok /\ p'.cc = cc
    BY <1>1, <2>2, <2>3 DEF Process
  <2> QED BY <2>4 DEF cc, n
<1>7. p'.cc[s] = None /\ \A r \in Asm \ {s} : p'.cc[r] = p.cc[r]
  BY <1>1, <1>6
<1>8. p.cc[s] # None /\ None # "ok"
  BY <1>1 DEF None
<1> DEFINE Out == {r \in Asm : p.cc[r] # None}
<1>9. {r \in Asm : p'.cc[r] # None} = Out \ {s} /\ s \in Out
  BY <1>7, <1>8
<1>10. IsFiniteSet(Out)
  BY BuildConstants, FS_Subset
<1> HIDE DEF Out
<1>11. Cardinality(Out \ {s}) = Cardinality(Out) - 1
  BY <1>9, <1>10, FS_RemoveElement
<1>12. AsmInv'
  <2>1. p'.spawned = Cardinality({r \in Asm : p'.cc[r] # None})
    BY <1>6, <1>9, <1>11 DEF BuildInv, AsmInv, Out
  <2>2. \A r \in Asm : p'.cc[r] = "ok" => Fresh(obj[r])'
    BY <1>2, <1>7, <1>8 DEF BuildInv, AsmInv, Fresh
  <2>3. p'.ok = TRUE => \A r \in p'.matches : p'.cc[r] = None => Fresh(obj[r])'
    BY <1>1, <1>2, <1>4, <1>6, <1>7 DEF BuildInv, AsmInv, Fresh
  <2>4. p'.pc = "asm"
    BY <1>1, <1>6
  <2> QED BY <2>1, <2>2, <2>3, <2>4 DEF AsmInv
<1> QED BY <1>1, <1>2, <1>6, <1>12, AsmStepPreserves

\* The timeout, the two ends of buildAssembly, and a compiler that outlived them.
LEMMA AsmEndPreserves ==
  ASSUME BuildInv, Timeout \/ AsmTimesOut \/ AsmDone
  PROVE  BuildInv'
<1>1. /\ p \in Process /\ TypeInv /\ p.pc = "asm" /\ p.links = 0 /\ orphans \subseteq Asm
  BY DEF BuildInv, TypeInv, LinksInv, Timeout, AsmTimesOut, AsmDone
<1>2. CASE Timeout
  <2>1. /\ p' \in Process /\ p'.pc = p.pc /\ p'.links = p.links
      /\ p'.matches = p.matches /\ p'.spawned = p.spawned
        /\ p'.ok = p.ok /\ p'.cc = p.cc
    BY <1>1, <1>2 DEF Timeout, Process
  <2>2. UNCHANGED <<run, obj, kernel, iso, orphans>>
    BY <1>2 DEF Timeout, disk
  <2>3. AsmInv' /\ obj' \in [Sources -> Int]
    BY <1>1, <2>1, <2>2 DEF BuildInv, AsmInv, Fresh, TypeInv
  <2> QED BY <1>1, <2>1, <2>2, <2>3, AsmStepPreserves
<1>3. CASE AsmTimesOut
  BY <1>1, <1>3, ExitPreserves DEF AsmTimesOut, disk
<1>4. CASE AsmDone /\ p.ok = FALSE
  BY <1>1, <1>4, ExitPreserves DEF AsmDone, disk
<1>5. CASE AsmDone /\ p.ok = TRUE
  <2>1. GoTo("main") /\ p.spawned = 0 /\ UNCHANGED <<run, obj, kernel, iso, orphans>> /\ "main" \in Steps
    BY <1>5 DEF AsmDone, disk, Steps, AfterAsm
  <2>2. /\ p' \in Process /\ p'.pc = "main" /\ p'.cc = p.cc /\ p'.spawned = p.spawned
        /\ p'.links = p.links /\ p'.matches = p.matches
    BY <1>1, <2>1, GoToFields
  <2> DEFINE Out == {r \in Asm : p.cc[r] # None}
  <2>3. IsFiniteSet(Out)
    BY BuildConstants, FS_Subset
  <2>4. Cardinality(Out) = 0
    BY <2>1 DEF BuildInv, AsmInv
  <2>5. Out = {}
    BY <2>3, <2>4, FS_EmptySet
  <2>6. \A r \in Asm : p.cc[r] = None
    BY <2>5
  <2>7. \A r \in p.matches : Fresh(obj[r])
    <3>1. p.matches \subseteq Asm
      BY <1>1, ProcessFields
    <3> QED BY <1>1, <1>5, <2>6, <3>1 DEF BuildInv, AsmInv
  <2> HIDE DEF Out
  <2>8. TypeInv'
    BY <1>1, <2>1, <2>2 DEF TypeInv
  <2>9. AsmInv'
    BY <2>1, <2>2, <2>6 DEF BuildInv, AsmInv, Fresh, None
  <2>10. CompiledInv' /\ LinksInv' /\ DownloadInv' /\ UntarInv'
    BY <1>1, <2>1, <2>2, <2>7 DEF CompiledInv, LinksInv, DownloadInv, UntarInv, AfterAsm, Linked, Packed,
       Installed, Fresh
  <2> QED BY <2>8, <2>9, <2>10 DEF BuildInv
<1>6. p.ok = TRUE \/ p.ok = FALSE
  BY <1>1, ProcessFields
<1> QED BY <1>2, <1>3, <1>4, <1>5, <1>6

\* What a compiler of an earlier invocation writes counts as late.
LEMMA OrphanPreserves ==
  ASSUME BuildInv, NEW s \in Asm, OrphanEnds(s)
  PROVE  BuildInv'
<1>1. /\ obj' \in {obj, [obj EXCEPT ![s] = Late]} /\ UNCHANGED <<run, p, kernel, root, iso>>
      /\ orphans' \subseteq Asm
  BY DEF OrphanEnds, BuildInv, TypeInv
<1>2. obj \in [Sources -> Int] /\ s \in Sources /\ Late \in Int
  BY DEF BuildInv, TypeInv, Sources, Late
<1>3. obj' \in [Sources -> Int] /\ \A r \in Sources : obj'[r] = obj[r] \/ obj'[r] = Late
  BY <1>1, <1>2
<1>4. \A r \in Sources : Fresh(obj[r]) => Fresh(obj[r])'
  BY <1>1, <1>3 DEF Fresh
<1>5. TypeInv' /\ LinksInv' /\ DownloadInv' /\ UntarInv'
  BY <1>1, <1>3 DEF BuildInv, TypeInv, LinksInv, DownloadInv, UntarInv
<1>6. p.matches \subseteq Asm
  BY ProcessFields DEF BuildInv, TypeInv
<1>7. AsmInv'
  BY <1>1, <1>4, <1>6 DEF BuildInv, AsmInv, Sources
<1>8. CompiledInv'
  BY <1>1, <1>4, <1>6 DEF BuildInv, CompiledInv, Sources, Fresh
<1> QED BY <1>5, <1>7, <1>8 DEF BuildInv

-----------------------------------------------------------------------------
(* The image                                                               *)

\* From main.c to QEMU.
LEMMA ImagePreserves ==
  ASSUME BuildInv,
         \/ buildMain \/ linkKernel \/ ImageBegin \/ ImageLink \/ ImageLinked \/ xorriso
         \/ BiosInstall \/ ImageEnd
  PROVE  BuildInv'
<1>1. /\ p \in Process /\ TypeInv /\ p.links \in Nat /\ CompiledInv /\ LinksInv
      /\ orphans \subseteq Asm /\ Main \notin Asm /\ run \in Nat
      /\ obj \in [Sources -> Int] /\ kernel \in [Sources -> Int]
      /\ iso \in [kernel : [Sources -> Int], bootable : BOOLEAN]
  BY ProcessFields, BuildConstants DEF BuildInv, TypeInv
<1>2. {"link", "image", "links", "xorriso", "install", "clean", "qemu"} \subseteq Steps
  BY DEF Steps, AfterAsm
<1>3. ASSUME NEW step \in {"link", "image", "links", "xorriso", "install", "clean", "qemu"},
             GoTo(step)
      PROVE  /\ p' \in Process /\ p'.pc = step /\ p'.cc = p.cc /\ p'.spawned = p.spawned
             /\ p'.links = p.links /\ p'.matches = p.matches
             /\ p'.pc \notin {"download", "asm"} /\ UntarInv'
  <2>1. step \in Steps
    BY <1>2
  <2>2. /\ p' \in Process /\ p'.pc = step /\ p'.cc = p.cc /\ p'.spawned = p.spawned
        /\ p'.links = p.links /\ p'.matches = p.matches
    BY <1>1, <1>3, <2>1, GoToFields
  <2> QED BY <2>2 DEF UntarInv
<1>4. CASE buildMain
  <2>1. /\ p.pc = "main" /\ obj' = [obj EXCEPT ![Main] = run] /\ GoTo("link")
        /\ UNCHANGED <<run, kernel, root, iso, orphans>>
    BY <1>4 DEF buildMain
  <2>2. obj' \in [Sources -> Int] /\ obj'[Main] = run /\ \A s \in Asm : obj'[s] = obj[s]
    BY <1>1, <2>1 DEF Sources
  <2>3. /\ p' \in Process /\ p'.pc = "link" /\ p'.cc = p.cc /\ p'.spawned = p.spawned
        /\ p'.links = p.links /\ p'.matches = p.matches
        /\ p'.pc \notin {"download", "asm"} /\ UntarInv'
    BY <1>3, <2>1
  <2>4. CompiledInv' /\ LinksInv'
    BY <1>1, <2>1, <2>2, <2>3 DEF CompiledInv, LinksInv, AfterAsm, Linked, Packed, Installed, Fresh
  <2> QED BY <1>1, <2>1, <2>2, <2>3, <2>4, StepPreserves
<1>5. CASE linkKernel
  <2>1. /\ p.pc = "link" /\ kernel' = obj /\ GoTo("image")
        /\ UNCHANGED <<run, obj, root, iso, orphans>>
    BY <1>5 DEF linkKernel
  <2>3. /\ p' \in Process /\ p'.pc = "image" /\ p'.cc = p.cc /\ p'.spawned = p.spawned
        /\ p'.links = p.links /\ p'.matches = p.matches
        /\ p'.pc \notin {"download", "asm"} /\ UntarInv'
    BY <1>3, <2>1
  <2>4. CompiledInv' /\ LinksInv'
    BY <1>1, <2>1, <2>3 DEF CompiledInv, LinksInv, AfterAsm, Linked, Packed, Installed, Fresh, Sources
  <2> QED BY <1>1, <2>1, <2>3, <2>4, StepPreserves
<1>6. CASE ImageBegin
  <2>1. /\ p.pc = "image" /\ root' = {} /\ GoTo("links")
        /\ UNCHANGED <<run, obj, kernel, iso, orphans>>
    BY <1>6 DEF ImageBegin
  <2>3. /\ p' \in Process /\ p'.pc = "links" /\ p'.cc = p.cc /\ p'.spawned = p.spawned
        /\ p'.links = p.links /\ p'.matches = p.matches
        /\ p'.pc \notin {"download", "asm"} /\ UntarInv'
    BY <1>3, <2>1
  <2>4. CompiledInv'
    BY <1>1, <2>1, <2>3 DEF CompiledInv, AfterAsm, Linked, Packed, Installed, Fresh
  <2>5. p'.links = 0 /\ 0 <= Len(ImageFiles) /\ root' = {ImageFiles[k] : k \in 1 .. 0}
    BY <1>1, <2>1, <2>3, BuildConstants DEF LinksInv
  <2>6. LinksInv'
    BY <2>3, <2>5 DEF LinksInv
  <2> QED BY <1>1, <2>1, <2>3, <2>4, <2>6, StepPreserves
<1>7. CASE ImageLink
  <2> DEFINE n == p.links + 1
  <2>1. /\ p.pc = "links" /\ p.links < Len(ImageFiles) /\ root' = root \cup {ImageFiles[n]}
        /\ p' = [p EXCEPT !.links = n] /\ UNCHANGED <<run, obj, kernel, iso, orphans>>
    BY <1>7 DEF ImageLink
  <2>2. n \in Nat /\ n <= Len(ImageFiles) /\ 1 .. n = 1 .. p.links \cup {n}
    BY <1>1, <2>1, BuildConstants
  <2>3. root' = {ImageFiles[k] : k \in 1 .. n}
    BY <1>1, <2>1, <2>2 DEF LinksInv
  <2> HIDE DEF n
  <2>4. /\ p' \in Process /\ p'.pc = p.pc /\ p'.cc = p.cc /\ p'.spawned = p.spawned
        /\ p'.links = n /\ p'.matches = p.matches
    BY <1>1, <2>1, <2>2 DEF Process
  <2>5. CompiledInv' /\ UntarInv'
    BY <1>1, <2>1, <2>4 DEF CompiledInv, AfterAsm, Linked, Packed, Installed, Fresh, UntarInv
  <2>6. LinksInv'
    BY <2>1, <2>2, <2>3, <2>4 DEF LinksInv
  <2> QED BY <1>1, <2>1, <2>4, <2>5, <2>6, StepPreserves
<1>8. CASE ImageLinked
  <2>1. p.pc = "links" /\ GoTo("xorriso") /\ UNCHANGED <<run, obj, kernel, root, iso, orphans>>
    BY <1>8 DEF ImageLinked, disk
  <2>3. /\ p' \in Process /\ p'.pc = "xorriso" /\ p'.cc = p.cc /\ p'.spawned = p.spawned
        /\ p'.links = p.links /\ p'.matches = p.matches
        /\ p'.pc \notin {"download", "asm"} /\ UntarInv'
    BY <1>3, <2>1
  <2>4. CompiledInv' /\ LinksInv'
    BY <1>1, <2>1, <2>3 DEF CompiledInv, LinksInv, AfterAsm, Linked, Packed, Installed, Fresh
  <2> QED BY <1>1, <2>1, <2>3, <2>4, StepPreserves
<1>9. CASE xorriso
  <2>1. /\ p.pc = "xorriso" /\ GoTo("install") /\ UNCHANGED <<run, obj, kernel, root, orphans>>
        /\ iso' = [kernel |-> kernel, bootable |-> FALSE]
    BY <1>9 DEF xorriso
  <2>2. /\ iso' \in [kernel : [Sources -> Int], bootable : BOOLEAN] /\ iso'.kernel = kernel
    BY <1>1, <2>1
  <2>3. /\ p' \in Process /\ p'.pc = "install" /\ p'.cc = p.cc /\ p'.spawned = p.spawned
        /\ p'.links = p.links /\ p'.matches = p.matches
        /\ p'.pc \notin {"download", "asm"} /\ UntarInv'
    BY <1>3, <2>1
  <2>4. CompiledInv' /\ LinksInv'
    BY <1>1, <2>1, <2>2, <2>3 DEF CompiledInv, LinksInv, AfterAsm, Linked, Packed, Installed, Fresh
  <2> QED BY <1>1, <2>1, <2>2, <2>3, <2>4, StepPreserves
<1>10. CASE BiosInstall
  <2>1. /\ p.pc = "install" /\ GoTo("clean") /\ UNCHANGED <<run, obj, kernel, root, orphans>>
        /\ iso' = [iso EXCEPT !.bootable = TRUE]
    BY <1>10 DEF BiosInstall
  <2>2. /\ iso' \in [kernel : [Sources -> Int], bootable : BOOLEAN] /\ iso'.kernel = iso.kernel
        /\ iso'.bootable = TRUE
    BY <1>1, <2>1
  <2>3. /\ p' \in Process /\ p'.pc = "clean" /\ p'.cc = p.cc /\ p'.spawned = p.spawned
        /\ p'.links = p.links /\ p'.matches = p.matches
        /\ p'.pc \notin {"download", "asm"} /\ UntarInv'
    BY <1>3, <2>1
  <2>4. CompiledInv' /\ LinksInv'
    BY <1>1, <2>1, <2>2, <2>3 DEF CompiledInv, LinksInv, AfterAsm, Linked, Packed, Installed, Fresh
  <2> QED BY <1>1, <2>1, <2>2, <2>3, <2>4, StepPreserves
<1>11. CASE ImageEnd
  <2>1. p.pc = "clean" /\ UNCHANGED <<run, obj, kernel, iso, orphans>>
    BY <1>11 DEF ImageEnd
  <2>2. CASE Exit
    BY <1>1, <2>1, <2>2, ExitPreserves
  <2>3. CASE GoTo("qemu")
    <3>1. /\ p' \in Process /\ p'.pc = "qemu" /\ p'.cc = p.cc /\ p'.spawned = p.spawned
          /\ p'.links = p.links /\ p'.matches = p.matches
          /\ p'.pc \notin {"download", "asm"} /\ UntarInv'
      BY <1>3, <2>3
    <3>2. CompiledInv' /\ LinksInv'
      BY <1>1, <2>1, <3>1 DEF CompiledInv, LinksInv, AfterAsm, Linked, Packed, Installed, Fresh
    <3> QED BY <1>1, <2>1, <3>1, <3>2, StepPreserves
  <2> QED BY <1>11, <2>2, <2>3 DEF ImageEnd
<1> QED BY <1>4, <1>5, <1>6, <1>7, <1>8, <1>9, <1>10, <1>11

-----------------------------------------------------------------------------
(* The theorems                                                            *)

\* BuildInv holds before the first invocation.
LEMMA InitBuildInv ==
  ASSUME Init
  PROVE  BuildInv
<1>1. /\ p \in Process /\ p.pc = "idle" /\ p.links = 0 /\ p.spawned = 0
      /\ \A s \in Asm : p.cc[s] = None
  BY IdleFields DEF Init
<1>2. TypeInv
  <2>1. run \in Nat /\ orphans \subseteq Asm
    BY DEF Init
  <2>2. obj \in [Sources -> Int] /\ kernel \in [Sources -> Int]
    BY DEF Init, Sources, Absent
  <2>3. iso \in [kernel : [Sources -> Int], bootable : BOOLEAN]
    BY <2>2 DEF Init
  <2> QED BY <1>1, <2>1, <2>2, <2>3 DEF TypeInv
<1>3. AsmInv
  <2>1. {s \in Asm : p.cc[s] # None} = {}
    BY <1>1
  <2>2. p.spawned = Cardinality({s \in Asm : p.cc[s] # None})
    BY <1>1, <2>1, FS_EmptySet
  <2>3. None # "ok"
    BY DEF None
  <2> QED BY <1>1, <2>2, <2>3 DEF AsmInv
<1>4. CompiledInv /\ LinksInv /\ DownloadInv /\ UntarInv
  BY <1>1 DEF CompiledInv, LinksInv, DownloadInv, UntarInv, AfterAsm, Linked, Packed, Installed
<1> QED BY <1>2, <1>3, <1>4 DEF BuildInv

\* Every step of an invocation preserves it, also one that ends the process.
LEMMA NextBuildInv ==
  ASSUME BuildInv, [Next]_vars
  PROVE  BuildInv'
<1>1. CASE \E args \in {None, "no", "d", "other"} : Start(args)
  BY <1>1, StartPreserves
<1>2. CASE \E t \in Tasks : downloadGziped(t)
  BY <1>2, downloadGzipedPreserves
<1>3. CASE ReceiveDownload
  BY <1>3, ReceiveDownloadPreserves
<1>4. CASE \/ DownloadsDone \/ UntarBegin \/ UntarRefused \/ UntarEnds \/ UntarPanics
           \/ BuildLimine
  BY <1>4, UntarPreserves
<1>5. CASE \E matches \in SUBSET Asm : AsmStart(matches)
  BY <1>5, AsmStartPreserves
<1>6. CASE AsmSteps
  BY <1>6, AsmEndPreserves, AsmReceivePreserves DEF AsmSteps
<1>7. CASE \E s \in Asm : ccFile(s) \/ CcKilled(s) \/ OrphanEnds(s)
  BY <1>7, CompilerPreserves, OrphanPreserves
<1>8. CASE \/ buildMain \/ linkKernel \/ ImageBegin \/ ImageLink \/ ImageLinked \/ xorriso
           \/ BiosInstall \/ ImageEnd
  BY <1>8, ImagePreserves
<1>9. CASE runQemu \/ Fails \/ Interrupt
  <2>1. Exit /\ UNCHANGED <<run, obj, kernel, iso, orphans>>
    BY <1>9 DEF runQemu, Fails, Interrupt, disk
  <2>2. TypeInv /\ orphans' \subseteq Asm
    BY <2>1 DEF BuildInv, TypeInv
  <2> QED BY <2>1, <2>2, ExitPreserves
<1>10. CASE Rest \/ UNCHANGED vars
  <2>1. UNCHANGED <<run, p, obj, kernel, root, iso, orphans>>
    BY <1>10 DEF Rest, vars, disk
  <2> QED
    <3>1. TypeInv' /\ CompiledInv' /\ LinksInv' /\ UntarInv'
      BY <2>1 DEF BuildInv, TypeInv, CompiledInv, LinksInv, UntarInv, Fresh
    <3>2. AsmInv'
      BY <2>1 DEF BuildInv, AsmInv, Fresh
    <3>3. DownloadInv'
      BY <2>1 DEF BuildInv, DownloadInv
    <3> QED BY <3>1, <3>2, <3>3 DEF BuildInv
<1> QED BY <1>1, <1>2, <1>3, <1>4, <1>5, <1>6, <1>7, <1>8, <1>9, <1>10 DEF Next

\* The inductive invariant of the build driver, over any number of invocations.
THEOREM BuildInvHolds == Spec => []BuildInv
BY InitBuildInv, NextBuildInv, PTL DEF Spec

\* Whatever earlier invocations left on disk, and wherever they were interrupted,
\* QEMU is only started on a bootable image in which every source file that this
\* invocation found was compiled by it, or by a compiler that outlived an earlier one.
THEOREM QemuRunsWhatWasBuilt == Spec => []QemuRunsThisBuild
<1>1. BuildInv => QemuRunsThisBuild
  BY DEF BuildInv, CompiledInv, QemuRunsThisBuild, Packed, Installed, Fresh, Sources
<1> QED BY <1>1, BuildInvHolds, PTL

\* createImage never finds a name taken that it is about to link.
THEOREM LeftoversDoNotBlock == Spec => []LeftoversNeverBlock
<1>1. BuildInv => LeftoversNeverBlock
  <2> SUFFICES ASSUME BuildInv, p.pc = "links", NEW k \in p.links + 1 .. Len(ImageFiles)
               PROVE  ImageFiles[k] \notin root
    BY DEF LeftoversNeverBlock
  <2>1. root = {ImageFiles[j] : j \in 1 .. p.links} /\ p.links \in Nat
        /\ p.links <= Len(ImageFiles)
    BY ProcessFields DEF BuildInv, LinksInv, TypeInv
  <2>2. DOMAIN ImageFiles = 1 .. Len(ImageFiles) /\ Len(ImageFiles) \in Nat
    BY BuildConstants
  <2>3. \A j \in 1 .. p.links : j \in DOMAIN ImageFiles /\ k \in DOMAIN ImageFiles /\ j # k
    BY <2>1, <2>2
  <2> QED BY <2>1, <2>3, BuildConstants, Zenon DEF IsInjective
<1> QED BY <1>1, BuildInvHolds, PTL

\* Only DownloadsDone leads from the downloads to the unpacking.
LEMMA UnpackingBegins ==
  ASSUME BuildInv, [Next]_vars, p.pc = "download", p'.pc = "untar"
  PROVE  DownloadsDone
<1>1. p \in Process /\ p' # Idle /\ p'.pc # p.pc
  BY IdleFields DEF BuildInv, TypeInv
<1>2. ASSUME NEW t \in Tasks, downloadGziped(t)
      PROVE  FALSE
  BY <1>1, <1>2 DEF downloadGziped, Process
<1>3. CASE ReceiveDownload
  <2> DEFINE rest == [p EXCEPT !.doneChan = Tail(@), !.doneUrls = @ + 1]
             result == Head(p.doneChan)
  <2>1. rest.pc = p.pc /\ DOMAIN rest = DOMAIN p /\ "pc" \in DOMAIN p
    BY <1>1 DEF Process
  <2>2. \/ p' = [rest EXCEPT !.downloads = Append(@, result.task)]
        \/ p' = [rest EXCEPT !.errs = TRUE]
    <3>1. result.outcome \in {"ok", "no response", "no gzip"}
      <4> DEFINE Reports == [task : Tasks, outcome : {"ok", "no response", "no gzip"}]
      <4>1. p.doneChan \in Seq(Reports) /\ p.doneChan # <<>>
        BY <1>1, <1>3, ProcessFields DEF ReceiveDownload
      <4> HIDE DEF Reports
      <4>2. result \in Reports
        BY <4>1, TailFacts, Zenon
      <4> QED BY <4>2 DEF Reports
    <3> QED BY <1>1, <1>3, <3>1 DEF ReceiveDownload, Exit
  <2> HIDE DEF rest, result
  <2> QED BY <1>1, <2>1, <2>2
<1>4. ASSUME NEW s \in Asm, ccFile(s) \/ CcKilled(s) \/ OrphanEnds(s)
      PROVE  FALSE
  BY <1>1, <1>4 DEF ccFile, CcKilled, OrphanEnds, Process
<1>5. ASSUME (\E matches \in SUBSET Asm : AsmStart(matches)) \/ AsmSteps
      PROVE  FALSE
  BY <1>5 DEF AsmStart, AsmSteps, Timeout, AsmTimesOut, AsmDone, AsmReceive
<1>6. ASSUME \/ \E args \in {None, "no", "d", "other"} : Start(args)
             \/ UntarBegin \/ UntarRefused \/ UntarEnds \/ UntarPanics \/ BuildLimine
      PROVE  FALSE
  BY <1>6 DEF Start, UntarBegin, UntarRefused, UntarEnds, UntarPanics, BuildLimine
<1>7. ASSUME \/ buildMain \/ linkKernel \/ ImageBegin \/ ImageLink \/ ImageLinked \/ xorriso
             \/ BiosInstall \/ ImageEnd \/ runQemu
      PROVE  FALSE
  BY <1>7 DEF buildMain, linkKernel, ImageBegin, ImageLink, ImageLinked, xorriso, BiosInstall,
              ImageEnd, runQemu
<1>8. ASSUME Fails \/ Interrupt \/ Rest \/ UNCHANGED vars
      PROVE  FALSE
  BY <1>1, <1>8 DEF Fails, Interrupt, Rest, Exit, vars
<1> QED BY <1>2, <1>3, <1>4, <1>5, <1>6, <1>7, <1>8 DEF Next

\* The step from the downloads to the unpacking is only taken with every missing
\* archive opened, each of them once, in whatever order the goroutines report.
THEOREM UnpacksAfterAllOpened == Spec => UnpackOnlyAfterAllOpened
<1>1. ASSUME BuildInv, [Next]_vars, p.pc = "download", p'.pc = "untar"
      PROVE  ToSet(p.downloads) = p.want /\ Len(p.downloads) = Cardinality(p.want)
  <2>1. DownloadsDone /\ p.errs = FALSE
    <3>1. DownloadsDone
      BY <1>1, UnpackingBegins
    <3>2. p.errs \in BOOLEAN
      BY <1>1, ProcessFields DEF BuildInv, TypeInv
    <3>3. p.errs = TRUE => p'.pc = "idle"
      BY <3>1, IdleFields DEF DownloadsDone, Exit
    <3> QED BY <1>1, <3>1, <3>2, <3>3
  <2> DEFINE n == Len(p.downloads)
  <2>2. /\ p.downloads \in Seq(Tasks) /\ IsFiniteSet(p.want) /\ p.want \subseteq Tasks
    <3>1. p.downloads \in Seq(Tasks) /\ p.want \subseteq Tasks
      BY <1>1, ProcessFields DEF BuildInv, TypeInv
    <3> QED BY <3>1, BuildConstants, FS_Subset
  <2>3. /\ \A k \in 1 .. n : p.downloads[k] \in p.want
        /\ Distinct(p.downloads) /\ p.doneUrls = n
    BY <1>1, <2>1 DEF BuildInv, DownloadInv
  <2>4. n = Cardinality(p.want) /\ n \in Nat
    BY <2>1, <2>2, <2>3 DEF DownloadsDone
  <2>5. p.downloads \in Injection(1 .. n, p.want)
    BY <2>2, <2>3 DEF Injection, IsInjective, Distinct
  <2>6. Cardinality(1 .. n) = n
    BY <2>4, FS_Interval
  <2>7. p.downloads \in Surjection(1 .. n, p.want)
    BY <2>2, <2>4, <2>5, <2>6, FS_Injection
  <2>8. ToSet(p.downloads) = p.want
    BY <2>2, <2>7 DEF Surjection, ToSet
  <2> QED BY <2>4, <2>8
<1> QED BY <1>1, BuildInvHolds, PTL DEF Spec, UnpackOnlyAfterAllOpened

=============================================================================
