--------------------------- MODULE FileSystemMetadata ---------------------------
(* The plugin file_system_metadata: owner, mode and path of the files in a file   *)
(* system (mounted in a container), in a tar archive, or in the log of unyaffs,   *)
(* and the lookup of one file by its path in the parent.                          *)
EXTENDS Inputs, Naturals, SequencesExt

CONSTANT FileSystems    \* see FileSystem in MCAlgorithms

Bits == {"suid", "ur", "uw", "ux", "sgid", "gr", "gw", "gx", "sticky", "or", "ow", "ox"}

\* The table of Python's module stat: per position the characters, and the bits that
\* each stands for; the first that fits is printed.
FilemodeTable == <<
    << <<"l", {"link"}>>, <<"-", {"regular"}>>, <<"d", {"directory"}>> >>,
    << <<"r", {"ur"}>> >>, << <<"w", {"uw"}>> >>,
    << <<"s", {"ux", "suid"}>>, <<"S", {"suid"}>>, <<"x", {"ux"}>> >>,
    << <<"r", {"gr"}>> >>, << <<"w", {"gw"}>> >>,
    << <<"s", {"gx", "sgid"}>>, <<"S", {"sgid"}>>, <<"x", {"gx"}>> >>,
    << <<"r", {"or"}>> >>, << <<"w", {"ow"}>> >>,
    << <<"t", {"ox", "sticky"}>>, <<"T", {"sticky"}>>, <<"x", {"ox"}>> >> >>

\* What unyaffs prints for a mode.
Filemode(mode) == [i \in DOMAIN FilemodeTable |->
    LET fits == SelectSeq(FilemodeTable[i], LAMBDA e : e[2] \subseteq mode)
    IN  IF fits = <<>> THEN "-" ELSE Head(fits)[1]]

FilemodeStrToInt(str) == UNION {UNION {e[2] : e \in {e \in Range(FilemodeTable[i]) : e[1] = str[i]}} : i \in DOMAIN str}

\* YAFFS_REGEX knows the types of regular files and links, not the one of directories.
YaffsMatches(e) == Filemode(e.mode)[1] \in {"-", "l"}

--------------------------------------------------------------------------------
(* An entry: mode, the owner as number and as name, the name in the container (a   *)
(* sequence of tokens: "./" and "/" and names), and whether it can be read.         *)
Metadata(e, mode, user, path) ==
    [mode |-> mode, user |-> user, key |-> path,
     suid_bit |-> "suid" \in mode, sgid_bit |-> "sgid" \in mode, sticky_bit |-> "sticky" \in mode]

GetResultsForMountedFile(e) == Metadata(e, e.mode, IF e.uid = 0 THEN "root" ELSE "", e.name)
StripDot(name) == IF name # <<>> /\ Head(name) = "./" THEN Tail(name) ELSE name
GetResultsForTarFile(e) == Metadata(e, e.mode, e.uname, StripDot(e.name))
GetResultsForYaffs(e) == Metadata(e, FilemodeStrToInt(Filemode(e.mode)), "None", e.name)

IsFile(e) == "regular" \in e.mode
Done(files) == [failed |-> FALSE, files |-> files]
Failed == [failed |-> TRUE, files |-> <<>>]
Each(op(_), entries) == [i \in DOMAIN entries |-> op(entries[i])]

\* The mounted file system is unmounted before the results are saved: a failure of
\* either leaves no output.
FromFileSystem(fs) ==
    IF fs.fault \in {"mount", "umount", "docker"} THEN Failed
    ELSE Done(Each(GetResultsForMountedFile, SelectSeq(fs.entries, LAMBDA e : IsFile(e) /\ e.readable)))
\* An archive that ends early gives the files so far, any other error gives none.
FromTar(fs) == IF fs.fault = "broken" THEN Failed
               ELSE Done(Each(GetResultsForTarFile, SelectSeq(fs.entries, IsFile)))
FromYaffs(fs) == IF fs.unpacker # "YAFFS" THEN Done(<<>>)
                 ELSE Done(Each(GetResultsForYaffs, SelectSeq(fs.entries, YaffsMatches)))
ExtractMetadata(fs) ==
    CASE fs.mime = "filesystem" -> FromFileSystem(fs)
      [] fs.mime = "archive"    -> FromTar(fs)
      [] fs.mime = "yaffs"      -> FromYaffs(fs)
      [] OTHER                  -> Done(<<>>)

SummarizeMetadata(r) == (IF \E f \in Range(r.files) : f.suid_bit THEN {"SUID bit"} ELSE {})
                    \union (IF \E f \in Range(r.files) : f.sgid_bit THEN {"SGID bit"} ELSE {})
TagShouldBeSet(r) == \E f \in Range(r.files) : f.user = "root" /\ (f.suid_bit \/ f.sgid_bit)

\* The routes: a file has the path "/" \o name in its parent; of several entries with
\* the same key the last one counts.
LookupInParent(r, path) ==
    LET found == SelectSeq(r.files, LAMBDA f : f.key = path)
    IN  IF found = <<>> THEN <<>> ELSE <<Last(found)>>

PickFileSystem == Choose("file system", FileSystems)

--------------------------------------------------------------------------------
(* Reading a mode back from the ten characters that unyaffs prints gives the mode:  *)
(* an executable bit under a special bit is told by the case of the letter.         *)
FilemodeRoundTrip ==
    Given("file system") => \A e \in Range(input.arg.entries) :
        FilemodeStrToInt(Filemode(e.mode)) = e.mode

\* The name without the prefixes that stand for the root.
PlainName(name) == SelectSeq(name, LAMBDA t : t \notin {"./", "/"})
(* Every regular file that could be read has metadata under the path it has in its  *)
(* parent, with the flags of its last entry: in a mounted file system and a yaffs    *)
(* log always, in a tar archive when its name is relative, and up to the place where *)
(* the archive ends.                                                                 *)
FileIsFoundByPath ==
    LET fs == input.arg  r == ExtractMetadata(fs) IN
    Given("file system") /\ fs.mime # "other" /\ fs.fault = "none" /\ (fs.mime = "yaffs" => fs.unpacker = "YAFFS") =>
        \A i \in DOMAIN fs.entries :
            LET e == fs.entries[i]
                again == \E k \in i + 1 .. Len(fs.entries) : PlainName(fs.entries[k].name) = PlainName(e.name)
            IN  IsFile(e) /\ e.readable /\ (e.name \in {PlainName(e.name), <<"./">> \o PlainName(e.name)}) /\ ~again =>
                    \E f \in Range(LookupInParent(r, IF fs.mime = "archive" THEN PlainName(e.name) ELSE e.name)) :
                        <<f.suid_bit, f.sgid_bit, f.sticky_bit>> = <<"suid" \in e.mode, "sgid" \in e.mode, "sticky" \in e.mode>>

(* The tag warns of a file that runs as root: it is set exactly if there is one, for *)
(* the owner as far as the format tells him, which yaffs does not; the summary then  *)
(* names the bit.                                                                    *)
TagMeansRunsAsRoot ==
    LET fs == input.arg  r == ExtractMetadata(fs) IN
    Given("file system") /\ ~r.failed =>
        /\ TagShouldBeSet(r) => SummarizeMetadata(r) # {}
        /\ TagShouldBeSet(r) <=> \E e \in Range(fs.entries) :
              /\ IsFile(e) /\ {"suid", "sgid"} \cap e.mode # {}
              /\ \/ fs.mime = "filesystem" /\ e.readable /\ e.uid = 0
                 \/ fs.mime = "archive" /\ e.uname = "root"
================================================================================
