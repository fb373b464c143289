-------------------------------- MODULE Tar ---------------------------------
(* Lab-5-Tarc/src/tarc.c writes an archive of a directory, from which        *)
(* Lab-6-Tarx/src/tarx.c makes it again.                                     *)
(*                                                                           *)
(* A path is the sequence of names below the directory given to tarc, <<>>   *)
(* for that directory itself: both strip what is above it.  An archive is    *)
(* the sequence of the fields that tarc writes and tarx reads, the bytes of  *)
(* a file being fields of their own.  While tarc runs, files may change in   *)
(* size and disappear; the archive may be cut short on its way to tarx.      *)
EXTENDS Integers, SequencesExt

CONSTANTS Disks,      \* the directories tarc is run on, see TarAssumption
          Now         \* the time at which tarx runs

Ancestors(p) == {SubSeq(p, 1, n) : n \in 0 .. Len(p) - 1}

\* A disk says which file is at each path, and what a file is; two paths of a file are hard
\* links, which directories do not have.  Those of fifos are left out: tarx makes directories of
\* fifos.  All files are on one device: inodes tell them apart.
File == [type : {"dir", "reg", "fifo", "symlink"}, ino : Nat, mode : {"rwx", "none"},
         mtime : Nat, bytes : Seq(Nat)]
TarAssumption ==
    \A disk \in Disks :
        /\ DOMAIN disk.at \subseteq Seq(STRING) /\ disk.at \in [DOMAIN disk.at -> DOMAIN disk.file]
        /\ disk.file \in [DOMAIN disk.file -> File]
        /\ <<>> \in DOMAIN disk.at /\ disk.file[disk.at[<<>>]].type # "symlink"
        /\ \A p \in DOMAIN disk.at : \A a \in Ancestors(p) :
              a \in DOMAIN disk.at /\ disk.file[disk.at[a]].type = "dir"
        /\ \A p, q \in DOMAIN disk.at :
              disk.at[p] = disk.at[q] => p = q \/ disk.file[disk.at[p]].type \in {"reg", "symlink"}
        /\ \A f, g \in DOMAIN disk.file : disk.file[f].ino = disk.file[g].ino => f = g
        /\ \A f \in DOMAIN disk.file : disk.file[f].type # "reg" => disk.file[f].bytes = <<>>
ASSUME TarAssumption

VARIABLES at, file,             \* the disk; what tarc is run on is at <<>>
          super,                \* tarc is run by the superuser, whom no mode stops
          tarc,                 \* where tarc is
          dir, entries,         \* traverse(): the open directory, and what readdir() has to return
          directories, stack,   \* directories found in it; those whose traversal is still to come
          inodes,               \* the inodes seen
          buf,                  \* the file print() copies
          out,                  \* what tarc has written to standard output
          tarx,                 \* where tarx is
          in,                   \* what tarx has still to read from standard input
          fn, inode, fsize,     \* the name, inode and size read last
          data, times,          \* struct Data by inode; those to restore, in the order read
          made, content,        \* what tarx has made: which inode is at each path, and the files
          resized, cut          \* what has happened to a file being copied, and to the archive

diskVars == <<at, file, super>>
tarcVars == <<tarc, dir, entries, directories, stack, inodes, buf, out>>
tarxVars == <<tarx, in, fn, inode, fsize, data, times, made, content>>
vars == <<diskVars, tarcVars, tarxVars, resized, cut>>

Field(kind, value) == [kind |-> kind, value |-> value]
Entries(p) == {q \in DOMAIN at : q # <<>> /\ Front(q) = p}

\* What the user of tarc may read.
Readable(f) == super \/ file[f].mode = "rwx"

Init ==
    /\ \E disk \in Disks : at = disk.at /\ file = disk.file
    /\ super \in BOOLEAN
    /\ tarc = "root"
    /\ dir = <<>> /\ entries = {} /\ directories = <<>> /\ stack = <<>>
    /\ inodes = {} /\ buf = <<>> /\ out = <<>>
    /\ tarx = "waiting"
    /\ in = <<>> /\ fn = <<>> /\ inode = 0 /\ fsize = 0
    /\ data = <<>> /\ times = <<>> /\ made = <<>> /\ content = <<>>
    /\ resized = FALSE /\ cut = FALSE

-----------------------------------------------------------------------------
(* tarc *)

\* Mutant: a size for whatever the file is.
SizeForAll(f) ==
    <<Field("mode", [type |-> file[f].type, bits |-> file[f].mode]), Field("mtime", file[f].mtime),
      Field("size", Len(file[f].bytes))>>

\* print(): what is written of a file whenever it is met, what the first time.
Header(p) == <<Field("name", p), Field("inode", file[at[p]].ino)>>
Metadata(f) ==
    <<Field("mode", [type |-> file[f].type, bits |-> file[f].mode]), Field("mtime", file[f].mtime)>>
    \o IF file[f].type = "reg" THEN <<Field("size", Len(file[f].bytes))>> ELSE <<>>
Bytes(f) == [k \in DOMAIN file[f].bytes |-> Field("byte", file[f].bytes[k])]

\* print() up to the bytes of a file, which are copied by Copy before anything else.
WriteEntry(p, next) ==
    LET f == at[p]
        new == file[f].ino \notin inodes
    IN  /\ out' = out \o Header(p) \o (IF new THEN Metadata(f) ELSE <<>>)
        /\ inodes' = inodes \cup {file[f].ino}
        /\ IF new /\ file[f].type = "reg"
           THEN tarc' = "copying" /\ buf' = <<f, next>>
           ELSE tarc' = next /\ UNCHANGED buf

\* fopen() and the fread() loop, up to the end the file has by then.
Copy ==
    /\ tarc = "copying"
    /\ IF Readable(buf[1])
       THEN /\ out' = out \o Bytes(buf[1])
            /\ tarc' = buf[2]
       ELSE tarc' = "failed" /\ UNCHANGED out
    /\ UNCHANGED <<diskVars, dir, entries, directories, stack, inodes, buf, tarxVars, resized, cut>>

\* main(): lstat() and print() of the argument, then traverse().
WriteRoot ==
    /\ tarc = "root"
    /\ WriteEntry(<<>>, "traversing")
    /\ stack' = <<<<>>>>
    /\ UNCHANGED <<diskVars, dir, entries, directories, tarxVars, resized, cut>>

\* traverse(): opendir().
OpenDirectory ==
    /\ tarc = "traversing" /\ stack # <<>>
    /\ LET f == at[Head(stack)]
       IN  IF file[f].type = "dir" /\ Readable(f)
           THEN /\ dir' = Head(stack) /\ stack' = Tail(stack)
                /\ entries' = Entries(Head(stack))
                /\ directories' = <<>>
                /\ tarc' = "scanning"
           ELSE tarc' = "failed" /\ UNCHANGED <<dir, stack, entries, directories>>
    /\ UNCHANGED <<diskVars, inodes, buf, out, tarxVars, resized, cut>>

\* readdir() returns the entry p, in any order.
Scan(p) ==
    /\ tarc = "scanning" /\ p \in entries /\ p \in DOMAIN at
    /\ entries' = entries \ {p}
    /\ IF file[at[p]].type = "symlink"
       THEN UNCHANGED <<tarc, directories, inodes, buf, out>>
       ELSE /\ directories' = IF file[at[p]].type = "dir" THEN Append(directories, p) ELSE directories
            /\ WriteEntry(p, "scanning")
    /\ UNCHANGED <<diskVars, dir, stack, tarxVars, resized, cut>>

\* An entry removed since opendir(): readdir() returns it, and lstat() fails, or does not.
ScanRemoved(p) ==
    /\ tarc = "scanning" /\ p \in entries \ DOMAIN at
    /\ entries' = entries \ {p}
    /\ tarc' \in {"scanning", "failed"}
    /\ UNCHANGED <<diskVars, dir, directories, stack, inodes, buf, out, tarxVars, resized, cut>>

\* Mutant: the directories found earlier are forgotten.
ForgetDirectories ==
    /\ tarc = "scanning" /\ entries = {}
    /\ stack' = directories
    /\ tarc' = "traversing"
    /\ UNCHANGED <<diskVars, dir, entries, directories, inodes, buf, out, tarxVars, resized, cut>>

\* closedir(), and on to the directories found, before those found earlier.
CloseDirectory ==
    /\ tarc = "scanning" /\ entries = {}
    /\ stack' = directories \o stack
    /\ tarc' = "traversing"
    /\ UNCHANGED <<diskVars, dir, entries, directories, inodes, buf, out, tarxVars, resized, cut>>

TarcReturns ==
    /\ tarc = "traversing" /\ stack = <<>>
    /\ tarc' = "done"
    /\ UNCHANGED <<diskVars, dir, entries, directories, stack, inodes, buf, out, tarxVars, resized, cut>>

Tarc ==
    \/ WriteRoot
    \/ OpenDirectory
    \/ \E p \in entries : Scan(p) \/ ScanRemoved(p)
    \/ Copy
    \/ CloseDirectory
    \/ TarcReturns

-----------------------------------------------------------------------------
(* Others, while tarc runs and between tarc and tarx *)

TarcRuns == tarc \notin {"done", "failed"}
Copying(f) == tarc = "copying" /\ buf[1] = f

\* Somebody appends to a file that is not in the archive yet, or truncates it.
Resize(f) ==
    /\ TarcRuns /\ ~resized
    /\ file[f].type = "reg"
    /\ file[f].ino \notin inodes \/ Copying(f)
    /\ file' = [file EXCEPT ![f].bytes = IF @ = <<>> THEN <<0>> ELSE Tail(@)]
    /\ resized' = Copying(f)
    /\ UNCHANGED <<at, super, tarcVars, tarxVars, cut>>

Grow(f) ==
    /\ Copying(f) /\ ~resized
    /\ file' = [file EXCEPT ![f].bytes = Append(@, 0)]
    /\ resized' = TRUE
    /\ UNCHANGED <<at, super, tarcVars, tarxVars, cut>>

\* Somebody removes an entry that readdir() has not returned yet.
RemoveEntry(p) ==
    /\ tarc = "scanning" /\ p \in entries \cap DOMAIN at
    /\ file[at[p]].type = "reg"
    /\ at' = [q \in DOMAIN at \ {p} |-> at[q]]
    /\ UNCHANGED <<file, super, tarcVars, tarxVars, resized, cut>>

\* tarx gets the archive, or what is left when it is cut off, at the end of a field or in it.
Transfer ==
    /\ ~TarcRuns /\ tarx = "waiting"
    /\ tarx' = "name"
    /\ \/ in' = out /\ cut' = FALSE
       \/ /\ cut' = TRUE
          /\ \E n \in 0 .. Len(out) - 1 :
                in' \in {SubSeq(out, 1, n), Append(SubSeq(out, 1, n), Field("torn", 0))}
    /\ UNCHANGED <<diskVars, tarcVars, fn, inode, fsize, data, times, made, content, resized>>

-----------------------------------------------------------------------------
(* tarx *)

\* What fread() finds where tarx expects fields of these kinds, one after the other:
\* those, the end of the input before they are complete, or something else.
Finds(kinds) ==
    LET n == Len(kinds)
        whole == {k \in 1 .. n : k <= Len(in) /\ in[k].kind = kinds[k]}
    IN  CASE whole = 1 .. n -> "found"
          [] \E k \in 1 .. n : /\ 1 .. k - 1 \subseteq whole
                               /\ k > Len(in) \/ in[k].kind = "torn" -> "short"
          [] OTHER -> "misread"

\* "Bad tarfile" and the end of tarx; or what is read is the middle of something, and anything
\* may follow.  The end is exit(1), except that clean() frees fn: when the length of a name is torn,
\* that is a pointer never set, or one already freed, and tarx may be killed instead, after its
\* message.  "bad" stands for both: nothing is made or restored any more.
Fails(kinds) == tarx' = IF Finds(kinds) = "short" THEN "bad" ELSE "misreading"

\* The directory of p can be written: all tarx makes it makes with mode 0700.
Reachable(p) == \A a \in Ancestors(p) : a \in DOMAIN made /\ content[made[a]].mode = "rwx"

\* A tree or a directory with one more entry.
Put(map, key, value) == [k \in DOMAIN map \cup {key} |-> IF k = key THEN value ELSE map[k]]

\* A path p is made for the inode i, in a directory that changes with it.
Enter(p, i, f) ==
    IF p \notin DOMAIN made /\ Reachable(p)
    THEN /\ made' = Put(made, p, i)
         /\ content' = LET c == Put(content, i, f)
                       IN  IF p = <<>> THEN c ELSE [c EXCEPT ![made[Front(p)]].mtime = Now]
    ELSE UNCHANGED <<made, content>>

\* link(): a path for the file that is at the path name.  Directories have no such links.
Link(name, p) ==
    IF name \in DOMAIN made /\ Reachable(name) /\ content[made[name]].type = "reg"
    THEN Enter(p, made[name], content[made[name]])
    ELSE UNCHANGED <<made, content>>

\* The end of the input: on to the modes and times.
EndOfArchive ==
    /\ tarx = "name" /\ in = <<>>
    /\ tarx' = "restoring"
    /\ UNCHANGED <<diskVars, tarcVars, in, fn, inode, fsize, data, times, made, content, resized, cut>>

\* A name and an inode: the inode is new, or the name is one more link to it.
ReadName ==
    /\ tarx = "name" /\ in # <<>>
    /\ IF Finds(<<"name", "inode">>) = "found"
       THEN /\ fn' = in[1].value /\ inode' = in[2].value
            /\ in' = SubSeq(in, 3, Len(in))
            /\ IF inode' \in DOMAIN data
               THEN Link(data[inode'].name, fn') /\ UNCHANGED tarx
               ELSE tarx' = "metadata" /\ UNCHANGED <<made, content>>
       ELSE Fails(<<"name", "inode">>) /\ UNCHANGED <<fn, inode, in, made, content>>
    /\ UNCHANGED <<diskVars, tarcVars, fsize, data, times, resized, cut>>

\* mkdir(fn, 0700).
MakeDirectory(d) == [type |-> "dir", mode |-> "rwx", mtime |-> Now, bytes |-> <<>>]

\* fopen(fn, "wb").
MakeFile(d) == [type |-> "reg", mode |-> "rwx", mtime |-> Now, bytes |-> <<>>]

\* Mode and time of a new inode; the size of a regular file, which is then opened.  All
\* that is not regular becomes a directory.
ReadMetadata ==
    /\ tarx = "metadata"
    /\ LET regular == Len(in) > 0 /\ in[1].kind = "mode" /\ in[1].value.type = "reg"
           kinds == IF regular THEN <<"mode", "mtime", "size">> ELSE <<"mode", "mtime">>
       IN  IF Finds(kinds) = "found"
           THEN LET d == [name |-> fn, mode |-> in[1].value.bits, mtime |-> in[2].value]
                IN  /\ data' = Put(data, inode, d)
                    /\ times' = Append(times, inode)
                    /\ fsize' = IF regular THEN in[3].value ELSE 0
                    /\ Enter(fn, inode, IF regular THEN MakeFile(d) ELSE MakeDirectory(d))
                    /\ in' = SubSeq(in, Len(kinds) + 1, Len(in))
                    /\ tarx' = IF regular THEN "data" ELSE "name"
           ELSE Fails(kinds) /\ UNCHANGED <<data, times, fsize, made, content, in>>
    /\ UNCHANGED <<diskVars, tarcVars, fn, inode, resized, cut>>

\* The bytes of the file, as many as its size says.
ReadData ==
    /\ tarx = "data"
    /\ LET kinds == [k \in 1 .. fsize |-> "byte"]
       IN  IF Finds(kinds) = "found"
           THEN /\ content' = [content EXCEPT ![inode].bytes = [k \in 1 .. fsize |-> in[k].value]]
                /\ in' = SubSeq(in, fsize + 1, Len(in))
                /\ tarx' = "name"
           ELSE Fails(kinds) /\ UNCHANGED <<content, in>>
    /\ UNCHANGED <<diskVars, tarcVars, fn, inode, fsize, data, times, made, resized, cut>>

\* utimes() and chmod() of an inode, which fail when its name cannot be reached, before the
\* rest of the list.
RestoreOne(i, rest) ==
    /\ LET name == data[i].name
       IN  content' = IF name \in DOMAIN made /\ Reachable(name)
                      THEN [content EXCEPT ![made[name]].mtime = data[i].mtime,
                                           ![made[name]].mode = data[i].mode]
                      ELSE content
    /\ times' = rest
    /\ UNCHANGED <<diskVars, tarcVars, tarx, in, fn, inode, fsize, data, made, resized, cut>>

\* Mutant: modes and times are restored in the order of the archive.
RestoreInOrder == tarx = "restoring" /\ times # <<>> /\ RestoreOne(Head(times), Tail(times))

\* dll_rtraverse(): the last inode of the archive first, so that a directory comes
\* after what is in it.
Restore == tarx = "restoring" /\ times # <<>> /\ RestoreOne(Last(times), Front(times))

TarxReturns ==
    /\ tarx = "restoring" /\ times = <<>>
    /\ tarx' = "done"
    /\ UNCHANGED <<diskVars, tarcVars, in, fn, inode, fsize, data, times, made, content, resized, cut>>

Tarx ==
    \/ EndOfArchive
    \/ ReadName
    \/ ReadMetadata
    \/ ReadData
    \/ Restore
    \/ TarxReturns

Next ==
    \/ Tarc
    \/ \E f \in DOMAIN file : Resize(f) \/ Grow(f)
    \/ \E p \in entries : RemoveEntry(p)
    \/ Transfer
    \/ Tarx
    \/ tarx \in {"done", "bad", "misreading"} /\ UNCHANGED vars

Spec == Init /\ [][Next]_vars

-----------------------------------------------------------------------------
(* Properties *)

\* When tarx returns 0, all it has made is right, wherever the archive ends, unless a file
\* changed in size while it was copied: each path has
\* the contents, the mode and the time it had, those of directories not undone by what was
\* made in them later, and paths are links to one file if and only if they were.
MadeIsRight ==
    tarx = "done" /\ ~resized =>
        /\ DOMAIN made \subseteq DOMAIN at
        /\ \A p \in DOMAIN made :
              LET f == file[at[p]]
              IN  content[made[p]] = [type |-> IF f.type = "reg" THEN "reg" ELSE "dir",
                                      mode |-> f.mode, mtime |-> f.mtime, bytes |-> f.bytes]
        /\ \A p, q \in DOMAIN made : made[p] = made[q] <=> at[p] = at[q]

\* "tarx ... recreate the directory": if tarc returns 0, the archive is not cut and no file
\* changed in size while it was copied, then tarx ends well and has made every path but
\* those of symbolic links.
RoundTrip ==
    tarc = "done" /\ ~cut /\ ~resized =>
        /\ tarx \notin {"bad", "misreading"}
        /\ tarx = "done" => DOMAIN made = {p \in DOMAIN at : file[at[p]].type # "symlink"}

\* tarx takes one field for another only if a file changed in size between the lstat() of
\* tarc, whose size is in the archive, and the read() of its bytes: no other accident to
\* tarc or to the archive goes unnoticed in the middle of an entry.
MisreadOnlyIfResized == tarx = "misreading" => resized
=============================================================================
