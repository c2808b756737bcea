------------------------------ MODULE VrtPath ------------------------------
(***************************************************************************)
(* Paths (vrt.c and the path helpers of ftp.c).  A string is a sequence of *)
(* tokens, "/", "." , ".." or a name.  strrchr and strndup cut at slashes  *)
(* only; strstr also finds a string that begins and ends within words, and *)
(* Inside, StartOf and EndOf say which word is a part of which other one.  *)
(* Names are taken to differ in more than case, and no path to reach       *)
(* MAXPATHLEN.  "" is the NUL at the end of a string.                      *)
(***************************************************************************)
EXTENDS Integers, Sequences, SequencesExt

CONSTANTS
  Device,      \* aliases of VIRTUAL_PARTITIONS, without their slash
  Name,        \* names of files and folders
  Short,       \* the names of one character
  Inside,      \* <<n, m>>: the word n occurs within the word m
  StartOf,     \* <<n, m>>: at its start
  EndOf        \* <<n, m>>: at its end

Word == Device \cup Name \cup {".", ".."}

ASSUME NamesAssumption ==
  /\ Short \subseteq Name
  /\ {"/", ".", "..", "", "NULL"} \cap (Device \cup Name) = {}
  /\ <<".", "..">> \in StartOf \cap EndOf
  /\ StartOf \cup EndOf \subseteq Inside /\ Inside \subseteq Word \X Word

\* A string: names that stand side by side would be one name.
Token == Word \cup {"/"}
IsPath(s) == s \in Seq(Token) /\ \A i \in 1 .. Len(s) - 1 : "/" \in {s[i], s[i + 1]}

Null == <<"NULL">>
Root == <<"/">>
Dot == <<".">>
DotDot == <<"..">>

LastSlash(s) == SelectLastInSeq(s, LAMBDA t : t = "/")
Before(s) == SubSeq(s, 1, LastSlash(s) - 1)      \* strndup up to strrchr
IsAbsolute(s) == s # <<>> /\ s[1] = "/"

\* strlen(s) > 1
Longer(s) == Len(s) > 1 \/ (Len(s) = 1 /\ s[1] \notin Short \cup {"/", "."})

\* strstr(s, p) # NULL: the first word of p may be the end of one of s, the
\* last one the start of one, and a word alone may be anywhere within one.
Occurs(p, s) ==
  LET n == Len(p)
      PartAt(j) == CASE n = 1 -> Inside
                     [] n > 1 /\ j = 1 -> EndOf
                     [] n > 1 /\ j = n -> StartOf
                     [] OTHER -> {}
  IN \E i \in 0 .. Len(s) - n :
       \A j \in 1 .. n : p[j] = s[i + j] \/ <<p[j], s[i + j]>> \in PartAt(j)

RemoveTrailingSlash(cwd) ==
  CASE cwd = Dot -> Root
    [] Len(cwd) > 1 /\ Last(cwd) = "/" -> Front(cwd)
    [] OTHER -> cwd

LastItemWithSlash(s) ==    \* (faulty: strdup(pos))
  IF s \in {<<>>, Root} THEN Null ELSE SubSeq(s, LastSlash(s), Len(s))
LastItemOfPath(s) ==
  IF s \in {<<>>, Root} THEN Null ELSE SubSeq(s, LastSlash(s) + 1, Len(s))

(***************************************************************************)
(* secureAndSplitPath: folder and fileName, Null where they stay NULL.     *)
(* What it does to cwd is undone by its callers, which copy folder to it.  *)
(* A name of one character is copied with cwd to two bytes.                *)
(***************************************************************************)
InCwd(cwd, path) ==
  Longer(path) /\ ~IsAbsolute(path) /\ Occurs(path, RemoveTrailingSlash(cwd))
Overflows(cwd, path) == Len(path) = 1 /\ path[1] \in Short /\ cwd # Root

SecureAndSplitPath(cwd, path) ==
  LET bare == RemoveTrailingSlash(cwd)
      Pair(folder, fileName) == [folder |-> folder, fileName |-> fileName]
      OfCwd == IF bare = Root THEN Pair(Null, Null)
               ELSE Pair(Before(bare), LastItemOfPath(bare))
  IN
  CASE path = Root \/ (path = Dot /\ cwd = Root) -> Pair(Root, Dot)
    [] path = Dot /\ cwd # Root -> Pair(Null, Null)
    [] path = <<>> -> OfCwd
    [] IsAbsolute(path) /\ Longer(path) -> Pair(Before(path), LastItemOfPath(path))
    [] InCwd(cwd, path) -> OfCwd
    [] Longer(path) /\ ~IsAbsolute(path) /\ ~InCwd(cwd, path) -> Pair(bare, path)
    [] path # Dot /\ path # Root /\ path # <<>> /\ ~Longer(path) -> Pair(cwd, path)

\* The working folder its callers leave.
SettledBare(folder) == folder    \* (faulty: no slash behind it)
Settled(folder) == IF folder = Root THEN Root ELSE folder \o Root

(***************************************************************************)
(* virtual_abspath: one scan with four states; dir is where the last       *)
(* component of out begins.                                                *)
(***************************************************************************)
UpOnce(a) ==
  LET kept == SubSeq(a.out, 1, a.dir - 1)
      prev == LastSlash(kept)
  IN IF prev > 0 THEN [state |-> "slash", out |-> SubSeq(kept, 1, prev), dir |-> prev]
     ELSE [state |-> "slash", out |-> kept \o Root, dir |-> a.dir]
UpNever(a) == [a EXCEPT !.state = "slash", !.out = SubSeq(@, 1, a.dir)]  \* (faulty: ".." as ".")
Up(a) == UpOnce(a)

Scan(a, t) ==
  LET Next(state) == [a EXCEPT !.state = state, !.out = Append(@, t)] IN
  CASE a.state = "dot" -> [a EXCEPT !.state = "slash", !.out = SubSeq(@, 1, a.dir)]
    [] a.state = "dotdot" -> Up(a)
    [] a.state \in {"start", "slash"} /\ t = "" -> a
    [] a.state = "slash" /\ t = "/" -> a
    [] a.state = "start" /\ t = "/" -> [Next("slash") EXCEPT !.dir = Len(a.out) + 1]
    [] a.state = "slash" /\ t = "." -> Next("dot")
    [] a.state = "slash" /\ t = ".." -> Next("dotdot")
    [] OTHER -> Next("start")

VirtualAbspath(cwd, path) ==
  LET whole == IF IsAbsolute(path) THEN path ELSE cwd \o path
      done == FoldLeft(Scan, [state |-> "start", out |-> <<>>, dir |-> 1], Append(whole, ""))
  IN IF done.out = Root THEN Root ELSE RemoveTrailingSlash(done.out)

(***************************************************************************)
(* to_real_path: the components of the path on its device, <<>> for the    *)
(* root of the virtual file system, Null when no device has the alias.     *)
(***************************************************************************)
Item(p, t) == IF t = "/" THEN p ELSE Append(p, t)
Items(s) == FoldLeft(Item, <<>>, s)

ToRealPath(cwd, path) ==
  LET items == Items(VirtualAbspath(cwd, path)) IN
  IF items = <<>> \/ items[1] \in Device THEN items ELSE Null

\* What a client means by path in the folder it is in: the reference that the
\* scans above are compared with.
Follow(p, t) ==
  CASE t \in {"/", "."} -> p
    [] t = ".." -> IF p = <<>> THEN p ELSE Front(p)
    [] OTHER -> Append(p, t)
Meant(home, path) == FoldLeft(Follow, IF IsAbsolute(path) THEN <<>> ELSE home, path)
=============================================================================
