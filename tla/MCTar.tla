------------------------------- MODULE MCTar --------------------------------
(* Instances of Tar for TLC. *)
EXTENDS Tar

Dir(ino, mode) == [type |-> "dir", ino |-> ino, mode |-> mode, mtime |-> ino, bytes |-> <<>>]
Reg(ino, mode, bytes) == [type |-> "reg", ino |-> ino, mode |-> mode, mtime |-> ino, bytes |-> bytes]
Special(ino, type) == [type |-> type, ino |-> ino, mode |-> "rwx", mtime |-> ino, bytes |-> <<>>]

\* The files of a disk by their inodes.
Disk(paths, files) ==
    [at |-> paths, file |-> [i \in {f.ino : f \in files} |-> CHOOSE f \in files : f.ino = i]]

\* Two links to a file in two directories, one of which only its owner's superuser may read.
HardLinks == Disk(<<>> :> 1 @@ <<"a">> :> 2 @@ <<"d">> :> 3 @@ <<"d", "b">> :> 2 @@ <<"d", "c">> :> 4,
                  {Dir(1, "rwx"), Reg(2, "rwx", <<7, 8>>), Dir(3, "none"), Reg(4, "rwx", <<>>)})

\* Directories in directories, a symbolic link and a fifo.
Nested == Disk(<<>> :> 1 @@ <<"d">> :> 2 @@ <<"e">> :> 3 @@ <<"d", "f">> :> 4 @@ <<"d", "f", "a">> :> 5
                 @@ <<"e", "s">> :> 6 @@ <<"e", "p">> :> 7,
               {Dir(1, "rwx"), Dir(2, "rwx"), Dir(3, "rwx"), Dir(4, "none"), Reg(5, "rwx", <<7>>),
                Special(6, "symlink"), Special(7, "fifo")})

\* Files that may not be read.
Unreadable == Disk(<<>> :> 1 @@ <<"a">> :> 2 @@ <<"b">> :> 3 @@ <<"c">> :> 3,
                   {Dir(1, "rwx"), Reg(2, "none", <<7>>), Reg(3, "none", <<>>)})

OneFile == Disk(<<>> :> 1, {Reg(1, "rwx", <<7>>)})

SomeDisks == {HardLinks, Nested, Unreadable, OneFile}
=============================================================================
