-------------------------------- MODULE Paths --------------------------------
(***************************************************************************)
(* The paths of one session: Filesystem.cpp, SplitPath (String.cpp), MkDir,*)
(* RmDir and Directory (IO.cpp) and the handlers of Session.cpp that call  *)
(* them.  A command is one tick, but it looks at the disk once for every   *)
(* directory on its way and again to act.  The other sessions change the   *)
(* disk between two commands, other processes at any time.                 *)
(*   idle      between two commands                                        *)
(*   walk      TryChangePath, in GetFilePath or in GetListing              *)
(*   act       the path is known: the system call that uses it is next     *)
(*   lost      TryChangePath returned false, or there is no file name      *)
(*   entry     a listing of one file: stat() is next                       *)
(*   entries   a listing of a directory: one stat() for each of its names  *)
(*   gone      SessionError: the session is removed                        *)
(*   segv      readdir() of a null DIR* (the process is gone)              *)
(* A string is a sequence of words and slashes.  A node of the disk is the *)
(* sequence of names that leads to it from the server's root directory.    *)
(* There are no symbolic links but those that lead nowhere, and no         *)
(* directory that may be read but not searched.                            *)
(***************************************************************************)
EXTENDS Integers, SequencesExt

CONSTANTS
  Names,       \* names of files and directories
  MaxDepth,    \* bound: depth of the tree
  Arguments,   \* the strings the client sends
  Others       \* others change the disk

Words == Names \cup {".", "..", "~"}

ASSUME PathsAssumption ==
  /\ MaxDepth \in Nat /\ Others \in BOOLEAN
  /\ Names \cap {".", "..", "/"} = {}
  /\ \A str \in Arguments :
       /\ str \in Seq(Words \cup {"/"})
       /\ \A i \in 1..(Len(str) - 1) : str[i] = "/" \/ str[i + 1] = "/"

VARIABLES
  dirs,        \* the directories under m_root, which is <<>>
  files,       \* the files, and the links that lead nowhere
  empty,       \* the files that hold nothing
  dangling,    \* the links
  mPath,       \* Filesystem::m_path
  verb,        \* the command that runs, or "none"
  arg,         \* its argument
  todo,        \* TryChangePath: what is left of reqPath
  path,        \* TryChangePath: path
  name,        \* GetFilePath: fname, or <<>> when a directory is wanted
  again,       \* the second walk of RETR and LIST
  entries,     \* what readdir() has yet to return
  at,          \* where the session is
  reply,       \* the reply to the last command, or "garbled": a listing with
               \* what was never written, or what belongs to another file
  disturbed    \* history: others changed the disk while the command ran

fileVars == <<files, empty, dangling>>
disk == <<dirs, fileVars>>
walkVars == <<todo, path, name>>
vars == <<disk, mPath, verb, arg, walkVars, again, entries, at, reply, disturbed>>

Verbs == {"CWD", "DELE", "MKD", "RMD", "STOR", "RETR", "LIST"}
Nodes == UNION {[1..n -> Names] : n \in 0..MaxDepth}
Replies == {"none", "done", "refused", "450", "425", "garbled"}

TypeOK ==
  /\ dirs \subseteq Nodes /\ files \subseteq Nodes
  /\ <<>> \in dirs /\ dirs \cap files = {}
  /\ \A n \in dirs \cup files : n # <<>> => Front(n) \in dirs
  /\ empty \subseteq files \ dangling /\ dangling \subseteq files
  /\ mPath \in Seq(Words \cup {"/"})
  /\ verb \in Verbs \cup {"none"} /\ arg \in Arguments \cup {<<>>}
  /\ todo \in Seq(Words) /\ path \in Seq(Names)
  /\ name \in {<<>>} \cup {<<w>> : w \in Words}
  /\ again \in BOOLEAN /\ entries \subseteq Names
  /\ at \in {"idle", "walk", "act", "lost", "entry", "entries", "gone", "segv"}
  /\ reply \in Replies
  /\ disturbed \in BOOLEAN

Init ==
  /\ dirs = {<<>>} /\ files = {} /\ empty = {} /\ dangling = {}
  /\ mPath = <<"/">>
  /\ verb = "none" /\ arg = <<>>
  /\ todo = <<>> /\ path = <<>> /\ name = <<>> /\ again = FALSE /\ entries = {}
  /\ at = "idle"
  /\ reply = "none"
  /\ disturbed = FALSE

-----------------------------------------------------------------------------
(* What the system calls find at the end of a string, behind m_root.       *)

Nowhere == <<"/">>

\* One step of the kernel's walk over the directories ds: from one of them only.
\* Without links to directories ".." is the directory that a name is in.
Enter(ds, node, w) ==
  CASE node \notin ds -> Nowhere
    [] node \in ds /\ w = "." -> node
    [] node \in ds /\ w = ".." -> IF node = <<>> THEN Nowhere ELSE Front(node)
    [] OTHER -> Append(node, w)

\* Where the walk gets to.
Reached(ds, from, words) ==
  LET r[k \in 0..Len(words)] == IF k = 0 THEN from ELSE Enter(ds, r[k - 1], words[k])
  IN  r[Len(words)]

\* The words between the slashes.
Components(str) ==
  LET c[k \in 0..Len(str)] ==
        IF k = 0 THEN <<>> ELSE IF str[k] = "/" THEN c[k - 1] ELSE Append(c[k - 1], str[k])
  IN  c[Len(str)]

Resolve(str) == Reached(dirs, <<>>, Components(str))

\* What stat() finds: it follows a link.
IsDir(str) == Resolve(str) \in dirs
IsFile(str) == Resolve(str) \in files \ dangling

\* mkdir(), rmdir(), unlink() and fopen() want a name at the end.
Named(str) == Components(str) # <<>> /\ Last(Components(str)) \notin {".", ".."}

Vacant(str) ==
  /\ Named(str)
  /\ Resolve(str) \in Nodes \ (dirs \cup files)
  /\ Front(Resolve(str)) \in dirs

Childless(node) == \A n \in dirs \cup files : n = <<>> \/ Front(n) # node

-----------------------------------------------------------------------------
(* SplitPath, MakePath and SplitProperPath.                                *)

\* The components, without a "~" in front.
SplitPath(str) ==
  LET words == Components(str) IN
    IF words # <<>> /\ Head(words) = "~" THEN Tail(words) ELSE words

MakePath(pv) ==
  LET ret[k \in 0..Len(pv)] == IF k = 0 THEN <<>> ELSE ret[k - 1] \o <<"/", pv[k]>>
  IN  IF pv = <<>> THEN <<"/">> ELSE ret[Len(pv)]

\* Mutant: "~/" does not lead to the root.
SplitProperPathHere(str) ==
  IF str # <<>> /\ Head(str) = "/" THEN <<>> ELSE SplitPath(mPath)

\* Where a walk along str starts: at the root, or at m_path.
SplitProperPath(str) ==
  IF str # <<>> /\ (Head(str) = "/" \/ (Len(str) > 1 /\ SubSeq(str, 1, 2) = <<"~", "/">>))
  THEN <<>>
  ELSE SplitPath(mPath)

-----------------------------------------------------------------------------
(* TryChangePath.                                                          *)

NoWalk == todo' = <<>> /\ path' = <<>> /\ name' = <<>>

WantsFile(str) ==
  IF SplitPath(str) = <<>>
  THEN at' = "lost" /\ NoWalk
  ELSE /\ at' = "walk"
       /\ todo' = Front(SplitPath(str)) /\ path' = SplitProperPath(str)
       /\ name' = <<Last(SplitPath(str))>>

WantsDirectory(str) ==
  /\ at' = "walk"
  /\ todo' = SplitPath(str) /\ path' = SplitProperPath(str)
  /\ name' = <<>>

\* The guards of a walk that has words left.
Walking(w) == at = "walk" /\ todo # <<>> /\ Head(todo) = w

Here == Walking(".") /\ todo' = Tail(todo) /\ UNCHANGED <<path, name, at>>

Up ==
  /\ Walking("..")
  /\ \/ path # <<>> /\ todo' = Tail(todo) /\ path' = Front(path) /\ UNCHANGED <<name, at>>
     \/ path = <<>> /\ at' = "lost" /\ NoWalk

\* Mutant: every name is taken for a directory.
DownUnchecked ==
  /\ at = "walk" /\ todo # <<>> /\ Head(todo) \notin {".", ".."}
  /\ todo' = Tail(todo) /\ path' = Append(path, Head(todo))
  /\ UNCHANGED <<name, at>>

\* DirectoryExists: one stat() for each name.
Down ==
  /\ at = "walk" /\ todo # <<>> /\ Head(todo) \notin {".", ".."}
  /\ LET next == MakePath(path) \o <<"/", Head(todo)>> IN
       \/ IsDir(next) /\ todo' = Tail(todo) /\ path' = Append(path, Head(todo))
            /\ UNCHANGED <<name, at>>
       \/ ~IsDir(next) /\ at' = "lost" /\ NoWalk

Arrive == at = "walk" /\ todo = <<>> /\ at' = "act" /\ UNCHANGED walkVars

TryChangePath ==
  /\ Here \/ Up \/ Down \/ Arrive
  /\ UNCHANGED <<disk, mPath, verb, arg, again, entries, reply, disturbed>>

-----------------------------------------------------------------------------
(* The commands.                                                           *)

\* HandleList: the path of a LIST without one.
Listed(str) == IF str = <<>> THEN <<".">> ELSE str

Request ==
  /\ at = "idle"
  /\ verb' \in Verbs /\ arg' \in Arguments
  /\ IF verb' = "CWD" THEN WantsDirectory(arg')
     ELSE WantsFile(IF verb' = "LIST" THEN Listed(arg') ELSE arg')
  /\ reply' = "none"
  /\ UNCHANGED <<disk, mPath, again, entries, disturbed>>

\* GetFilePath's result; behind m_root it is the root itself when it is "".
Target == IF at = "act" THEN MakePath(path) \o <<"/">> \o name ELSE <<>>
Node == Resolve(Target)

Known == at \in {"act", "lost"}

\* Telnet::Write, which throws when the control connection is gone.
Says(r) ==
  \/ at' = "idle" /\ reply' = r
  \/ at' = "gone" /\ reply' = "none"

ChangeDirectory ==
  /\ verb = "CWD" /\ Known
  /\ \/ at = "act" /\ mPath' = MakePath(path) /\ Says("done")
     \/ at = "lost" /\ UNCHANGED mPath /\ Says("refused")
  /\ UNCHANGED disk

\* The system call may always fail, for a permission or for a bound.  unlink()
\* takes the link and not what it leads to.
Delete ==
  /\ verb = "DELE" /\ Known
  /\ \/ /\ Node \in files /\ files' = files \ {Node}
        /\ empty' = empty \ {Node} /\ dangling' = dangling \ {Node}
        /\ Says("done")
     \/ UNCHANGED fileVars /\ Says("refused")
  /\ UNCHANGED <<dirs, mPath>>

MkDir ==
  /\ verb = "MKD" /\ Known
  /\ \/ at = "act" /\ Vacant(Target) /\ dirs' = dirs \cup {Node} /\ Says("done")
     \/ UNCHANGED dirs /\ Says("refused")
  /\ UNCHANGED <<fileVars, mPath>>

\* Mutant: the directory goes with all that is in it.
RmDirWhole ==
  /\ verb = "RMD" /\ Known
  /\ \/ /\ at = "act" /\ Named(Target) /\ Node \in dirs \ {<<>>}
        /\ dirs' = dirs \ {Node} /\ Says("done")
     \/ UNCHANGED dirs /\ Says("refused")
  /\ UNCHANGED <<fileVars, mPath>>

\* Also the directory a session is in.
RmDir ==
  /\ verb = "RMD" /\ Known
  /\ \/ /\ at = "act" /\ Named(Target) /\ Node \in dirs \ {<<>>} /\ Childless(Node)
        /\ dirs' = dirs \ {Node} /\ Says("done")
     \/ UNCHANGED dirs /\ Says("refused")
  /\ UNCHANGED <<fileVars, mPath>>

\* Mutant: the file is opened for appending.
DownloadAppends ==
  /\ verb = "STOR" /\ Known
  /\ \/ /\ Vacant(Target) \/ Node \in files
        /\ files' = files \cup {Node} /\ UNCHANGED empty
        /\ dangling' = dangling \ {Node}
        /\ Says("done") \/ Says("425")
     \/ UNCHANGED fileVars /\ Says("450")
  /\ UNCHANGED <<dirs, mPath>>

\* Download: fopen() makes the file, the one a link leads to, or takes away what
\* it holds.  Then OpenDataConnection: 150 is "done", and with 425 the file stays
\* as fopen() has left it.  If socket() fails in Connect the session goes too.
Download ==
  /\ verb = "STOR" /\ Known
  /\ \/ /\ Vacant(Target) \/ Node \in files
        /\ files' = files \cup {Node}
        /\ empty' = empty \cup {Node} /\ dangling' = dangling \ {Node}
        /\ Says("done") \/ Says("425")
     \/ UNCHANGED fileVars /\ Says("450")
  /\ UNCHANGED <<dirs, mPath>>

\* Upload: FileExists, then FileOpen, which walks again and opens whatever is
\* there now, a directory too.  The connection of RETR and LIST is opened when
\* the disk has been looked at: 150 and 425 are both "done" here.
Upload ==
  /\ verb = "RETR" /\ Known
  /\ \/ ~again /\ ~IsFile(Target) /\ Says("refused")
     \/ again /\ (IsFile(Target) \/ IsDir(Target)) /\ Says("done")
     \/ again /\ Says("450")
  /\ UNCHANGED <<disk, mPath>>

\* GetListing of a file: its stat() is not looked at, and what is shown of a
\* file that has gone is uninitialized.
ListFile ==
  /\ at = "entry"
  /\ LET str == MakePath(path) \o <<"/">> \o name IN
       Says(IF IsDir(str) \/ IsFile(str) THEN "done" ELSE "garbled")
  /\ UNCHANGED <<disk, mPath>>

\* TryChangePath has failed: the list is empty.
ListNothing ==
  /\ verb = "LIST" /\ Known /\ again
  /\ at = "lost" /\ Says("450")
  /\ UNCHANGED <<disk, mPath>>

\* Directory::Open: opendir() fails, because there is no directory, or for a
\* permission or a descriptor, and readdir() gets its null DIR*.
OpenFails ==
  /\ verb = "LIST" /\ Known /\ again
  /\ at = "act" /\ at' = "segv"
  /\ UNCHANGED <<disk, mPath, reply>>

\* GetListing of a directory has shown every entry.
ListDirectory ==
  /\ at = "entries" /\ entries = {}
  /\ Says(IF reply = "garbled" THEN "garbled" ELSE "done")
  /\ UNCHANGED <<disk, mPath>>

Finish ==
  /\ \/ ChangeDirectory \/ Delete \/ MkDir \/ RmDir \/ Download
     \/ Upload \/ ListFile \/ ListNothing \/ OpenFails \/ ListDirectory
  /\ verb' = "none" /\ arg' = <<>> /\ NoWalk /\ again' = FALSE /\ disturbed' = FALSE
  /\ UNCHANGED entries

\* The names in a directory; "." and ".." are left out.
NamesIn(node) == {w \in Names : Append(node, w) \in dirs \cup files}

\* Directory::Open: the names that are there now are what readdir() returns.
OpenDirectory ==
  /\ verb = "LIST" /\ Known /\ again
  /\ at = "act" /\ IsDir(MakePath(path))
  /\ at' = "entries" /\ entries' = NamesIn(Resolve(MakePath(path)))
  /\ UNCHANGED <<disk, mPath, verb, arg, walkVars, again, reply, disturbed>>

\* One entry: the result of its stat() is not looked at, and if there is none
\* the line shows what s held before.
ShowEntry ==
  /\ at = "entries"
  /\ \E w \in entries :
       LET str == MakePath(path) \o <<"/", w>> IN
         /\ entries' = entries \ {w}
         /\ reply' = IF IsDir(str) \/ IsFile(str) THEN reply ELSE "garbled"
  /\ UNCHANGED <<disk, mPath, verb, arg, walkVars, again, at, disturbed>>

\* CheckFileExists has answered: RETR walks to open the file, LIST to see what
\* else the path is, or shows the file.
Continue ==
  /\ Known /\ ~again
  /\ \/ verb = "RETR" /\ IsFile(Target) /\ WantsFile(arg) /\ again' = TRUE
     \/ verb = "LIST" /\ IsFile(Target) /\ at' = "entry" /\ UNCHANGED <<walkVars, again>>
     \/ verb = "LIST" /\ ~IsFile(Target) /\ WantsDirectory(Listed(arg)) /\ again' = TRUE
  /\ UNCHANGED <<disk, mPath, verb, arg, entries, reply, disturbed>>

-----------------------------------------------------------------------------
(* The others: one node comes or goes, or what it holds or leads to.       *)

Disturb ==
  /\ Others /\ at \notin {"gone", "segv"}
  /\ \E n \in Nodes \ {<<>>} :
       \/ /\ n \notin dirs \cup files /\ Front(n) \in dirs
          /\ \/ dirs' = dirs \cup {n} /\ UNCHANGED fileVars
             \/ files' = files \cup {n} /\ UNCHANGED <<dirs, empty, dangling>>
             \/ files' = files \cup {n} /\ dangling' = dangling \cup {n} /\ UNCHANGED <<dirs, empty>>
       \/ /\ n \in files /\ files' = files \ {n}
          /\ empty' = empty \ {n} /\ dangling' = dangling \ {n} /\ UNCHANGED dirs
       \/ /\ n \in files \ dangling /\ empty' \in {empty \ {n}, empty \cup {n}}
          /\ UNCHANGED <<dirs, files, dangling>>
       \/ n \in dangling /\ dangling' = dangling \ {n} /\ UNCHANGED <<dirs, files, empty>>
       \/ n \in dirs /\ Childless(n) /\ dirs' = dirs \ {n} /\ UNCHANGED fileVars
  /\ disturbed' = (disturbed \/ at # "idle")
  /\ UNCHANGED <<mPath, verb, arg, walkVars, again, entries, at, reply>>

Next ==
  \/ Request \/ TryChangePath \/ Continue \/ OpenDirectory \/ ShowEntry
  \/ Finish \/ Disturb

Spec == Init /\ [][Next]_vars

-----------------------------------------------------------------------------
(* Properties.                                                             *)

\* A "~" in front means the root in "~/", and elsewhere it is dropped, even if
\* it is a name (String.cpp:57): what such a path leads to is not stated.
Plain(str) ==
  /\ Components(str) # <<>> /\ Head(Components(str)) = "~"
       => Len(str) > 1 /\ SubSeq(str, 1, 2) = <<"~", "/">>

Rooted(str) == str # <<>> /\ Head(str) \in {"/", "~"}

\* Where the kernel gets from the directory PWD prints.
Meant(str) ==
  LET words == IF Plain(str) /\ str # <<>> /\ Head(str) = "~"
               THEN Tail(Components(str)) ELSE Components(str)
  IN  Reached(dirs, IF Rooted(str) THEN <<>> ELSE Resolve(mPath), words)

\* A command that ends, after a walk nobody disturbed, from a directory that
\* is still there.
Ends == at \notin {"idle", "gone", "segv"} /\ at' \in {"idle", "gone"}
Undisturbed == Ends /\ ~disturbed /\ Plain(arg) /\ Plain(mPath) /\ IsDir(mPath)

\* CWD follows the names from the directory PWD prints, and PWD then prints
\* the directory it has come to; it is refused if there is none.
CwdFollowsPwd ==
  [][Undisturbed /\ at' = "idle" /\ verb = "CWD" =>
       IF Meant(arg) \in dirs
       THEN reply' = "done" /\ Resolve(mPath') = Meant(arg)
       ELSE reply' = "refused" /\ mPath' = mPath]_vars

\* What a command changes when it is carried out on the node n.
Does(n) ==
  CASE verb = "DELE" -> /\ n \in files /\ files' = files \ {n}
                        /\ empty' = empty \ {n} /\ dangling' = dangling \ {n}
                        /\ UNCHANGED dirs
    [] verb = "MKD" -> n \notin dirs \cup files /\ dirs' = dirs \cup {n} /\ UNCHANGED fileVars
    [] verb = "RMD" -> n \in dirs /\ dirs' = dirs \ {n} /\ UNCHANGED fileVars
    [] verb = "STOR" -> /\ n \notin dirs /\ files' = files \cup {n}
                        /\ empty' = empty \cup {n} /\ dangling' = dangling \ {n}
                        /\ UNCHANGED dirs

\* DELE, MKD, RMD and STOR change the one node that their argument names from
\* the directory PWD prints, if they say so, and nothing otherwise.  A STOR has
\* taken away what the file held also if it says 425 (Session.cpp:744), although
\* doc/rfc0959.txt:2097 has of a 4yz that "the requested action did not take
\* place".  A session that goes without a reply has done one or the other.
ChangesWhatItNames ==
  [][Undisturbed /\ verb \in {"DELE", "MKD", "RMD", "STOR"} =>
       CASE at' = "idle" /\ reply' \in {"done", "425"} -> Does(Meant(arg))
         [] at' = "idle" /\ reply' \notin {"done", "425"} -> UNCHANGED disk
         [] at' = "gone" -> Does(Meant(arg)) \/ UNCHANGED disk]_vars

\* LIST reads from a null DIR* only if opendir() refuses a directory that is
\* there, if others changed the disk meanwhile, or if the session's own
\* directory is not where SplitPath looks for it: it has been removed, or it is
\* under a "~" in the root, which is dropped (String.cpp:57).  It shows what was
\* never written, or what belongs to another file, only if others changed the
\* disk meanwhile or for a link that leads nowhere.
ListingExcused ==
  [][/\ at' = "segv" => IsDir(MakePath(path)) \/ disturbed \/ ~IsDir(mPath) \/ ~Plain(mPath)
     /\ Ends /\ reply' = "garbled" =>
          disturbed \/ \E w \in Names : Append(path, w) \in dangling]_vars

-----------------------------------------------------------------------------
(* Why they hold.                                                          *)

\* PWD prints a path that ChangeDirectory has made.
PwdIsMade == Components(mPath) \in Seq(Names) /\ mPath = MakePath(Components(mPath))

\* A command runs from its Request to its reply.  CWD has no file name, and
\* only LIST shows one file.
Control ==
  /\ at \in {"idle", "gone", "segv"} <=> verb = "none"
  /\ at = "idle" => ~disturbed
  /\ at = "act" => todo = <<>>
  /\ verb = "CWD" => name = <<>>
  /\ at \in {"entry", "entries"} => verb = "LIST"
  /\ entries # {} => at = "entries"

\* A walk nobody disturbs is in a directory, and what is left of it leads to
\* what the argument names, or there is no such directory.
OnTheWay ==
  /\ ~disturbed /\ IsDir(mPath) /\ Plain(mPath) =>
       /\ at \in {"walk", "act"} => path \in dirs
       /\ at \in {"walk", "act"} /\ verb # "LIST" /\ Plain(arg) =>
            Reached(dirs, Reached(dirs, path, todo), name) = Meant(arg)
       /\ at = "lost" /\ verb = "CWD" /\ Plain(arg) => Meant(arg) \notin dirs
  /\ ~disturbed /\ at = "entry" => IsFile(MakePath(path) \o <<"/">> \o name)

\* A listing nobody disturbs has names of its directory, and what stat() does
\* not find there is a link.
InTheListing ==
  verb # "none" /\ ~disturbed =>
    /\ at = "entries" => path \in dirs /\ entries \subseteq NamesIn(path)
    /\ reply = "garbled" => at = "entries" /\ \E w \in Names : Append(path, w) \in dangling

PathsInv == TypeOK /\ PwdIsMade /\ Control /\ OnTheWay /\ InTheListing

-----------------------------------------------------------------------------
(* What a document says and the code does not do.                          *)

\* doc/rfc0959.txt:2918 has 450 for a LIST that cannot be done, Session.cpp:535
\* sends it when the listing is empty, and Filesystem.cpp:178 makes it empty
\* when Directory::Open returns false.  But Open reads from the null DIR*
\* before it returns: a LIST of a directory that may not be read, or that has
\* been removed, ends the server.
ListFailureAnswered == [][verb = "LIST" /\ at # "idle" => at' # "segv"]_vars
=============================================================================
