-------------------------------- MODULE Vfs --------------------------------
(***************************************************************************)
(* Path lookup in src/fs/vfs.c over the tree start_kernel mounts: the root *)
(* of relisfs with the root of procfs under it, which has one child,       *)
(* cpuinfo.  A path is a sequence of characters, and a name is one or more *)
(* characters other than the slash.                                        *)
(* Operators named ..._bug are seeded faults for the mutation runs.        *)
(***************************************************************************)
EXTENDS Loops

NoDentry == "none"
Dentries == {"root", "proc", "cpuinfo"}

\* Short names for "proc" and "cpuinfo"; one is the beginning of the other.
d_name == [root |-> <<"/">>, proc |-> <<"p">>, cpuinfo |-> <<"p", "c">>]

d_children == [root |-> <<"proc">>, proc |-> <<"cpuinfo">>, cpuinfo |-> << >>]

\* The first child with that name, the code's loop over d_children.
Child(d, name) ==
  LET i == SelectInSeq(d_children[d], LAMBDA e : d_name[e] = name)
  IN  IF d = NoDentry \/ i = 0 THEN NoDentry ELSE d_children[d][i]

\* An empty name stays in the directory: "//", and a slash at the end.
Enter_bug(d, name) == Child(d, name)

Enter(d, name) == IF name = << >> \/ d = NoDentry THEN d ELSE Child(d, name)

\* One character of the path: the state of the loop is the directory reached
\* and the characters of name[] so far.
Character(s, c) ==
  IF c = "/" THEN [d |-> Enter(s.d, s.name), name |-> << >>]
  ELSE [s EXCEPT !.name = Append(@, c)]

\* The dentry of the file that vfs_open returns, or none.
vfs_open(path) ==
  IF path = << >> \/ path[1] # "/" THEN NoDentry
  ELSE LET s == FoldLeft(Character, [d |-> "root", name |-> << >>], Tail(path))
       IN  Enter(s.d, s.name)
=============================================================================
