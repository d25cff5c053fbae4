-------------------------- MODULE SysinfoSnapshot --------------------------
(***************************************************************************)
(* The snapshots of the nodes that the profile creator works on.  The      *)
(* must-gather script starts a pod on every node and runs                  *)
(* "gather_sysinfo snapshot" in it (tools/gather-sysinfo), which copies    *)
(* files of /proc and /sys into a scratch directory and packs that.        *)
(*                                                                         *)
(* A path is the sequence of its segments, a few stand for all.  A host    *)
(* has its hardware, the path it is mounted at in the pod, whether the pod *)
(* runs, and the calls of the snapshot that fail on it.                    *)
(***************************************************************************)
EXTENDS Naturals, Sequences, SequencesExt

CONSTANTS Nil, Bad

NumaFiles   == <<"sys", "devices", "system", "node">>
MachineInfo == <<"machineinfo.json">>

kniExpectedCloneContent == <<<<"proc", "cmdline">>, <<"proc", "interrupts">>>>

\* snapshot.ExpectedCloneContent of ghw: it is put together from several
\* lists, for PCI devices and GPUs among others, and may name a path twice.
ExpectedCloneContent ==
    <<NumaFiles, <<"sys", "bus", "pci">>, <<"sys", "bus", "pci">>>>

\* The files of an archive, and where they are on the mounted host.
ArchiveFiles == ToSet(kniExpectedCloneContent) \union ToSet(ExpectedCloneContent)
                \union {MachineInfo}
MountedFiles == {<<"host">> \o p : p \in ArchiveFiles}

ASSUME SnapshotAssumption ==
    /\ Nil # Bad /\ Nil # "-"
    /\ \A files \in (SUBSET ArchiveFiles) \union (SUBSET MountedFiles) : files \notin {Nil, Bad}

\* Mutant: the lists are only appended.
dedupAppend(fileSpecs, extraFileSpecs) == fileSpecs \o extraFileSpecs

dedupExpectedContent(fileSpecs, extraFileSpecs) ==
    SetToSeq(ToSet(fileSpecs) \union ToSet(extraFileSpecs))

chrootFileSpecs(fileSpecs, root) == [i \in DOMAIN fileSpecs |-> root \o fileSpecs[i]]

\* snapshot.CopyFilesInto: a pattern that matches nothing is no error, a link
\* that is there already is one.
CopyFilesInto(fileSpecs, host) ==
    IF "copy" \in host.fails \/ ~IsInjective(fileSpecs) THEN Bad
    ELSE {p \in ToSet(fileSpecs) : IsPrefix(host.mount, p)}

\* Its errors are logged; the directory is missing when nothing was copied from
\* a root directory.
collectMachineinfo(host, isDir) ==
    {p \in {MachineInfo} : "machineinfo" \notin host.fails /\ isDir}

\* What lies below a directory, by the paths from there.
Below(dir, files) ==
    {SubSeq(p, Len(dir) + 1, Len(p)) : p \in {q \in files : IsPrefix(dir, q)}}

\* The files of the archive; Nil if none is written, Bad on an error.  What
\* has been written when packing fails cannot be unpacked.
makeSnapshot(opts, host) ==
    LET all       == dedupExpectedContent(kniExpectedCloneContent, ExpectedCloneContent)
        fileSpecs == IF opts.rootDir = <<>> THEN all ELSE chrootFileSpecs(all, opts.rootDir)
        copied    == CopyFilesInto(fileSpecs, host)
        packed    == Below(opts.rootDir, copied)
    IN IF opts.dumpList THEN Nil
       ELSE IF opts.output = Nil \/ "temp" \in host.fails \/ copied = Bad \/ "pack" \in host.fails
       THEN Bad
       ELSE packed \union collectMachineinfo(host, opts.rootDir = <<>> \/ packed # {})

\* The NUMA nodes and cores ghw finds in an archive: none at all, and no error,
\* when it does not have their files.
Topology(archive, host) ==
    IF archive \in {Nil, Bad} THEN Bad
    ELSE IF NumaFiles \in archive THEN host.hardware ELSE "none"

\* gather_nodes calls "snapshot --root=/host --output=- > sysinfo.tgz": the
\* shell has made the file, whatever becomes of the command.  Nodes whose pod
\* does not run are skipped.
Gathered(host) ==
    LET opts == [dumpList |-> FALSE, output |-> "-", rootDir |-> <<"host">>] IN
    [host EXCEPT !.snapshot = host.running,
                 !.topology = IF host.running THEN Topology(makeSnapshot(opts, host), host)
                              ELSE Bad]
=============================================================================
