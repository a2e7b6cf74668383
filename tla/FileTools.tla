------------------------------- MODULE FileTools -------------------------------
(***************************************************************************)
(* The workspace's read, edit and write tools (plugins/filesystem/operations   *)
(* .py) on one path, used by several agents at a time, beside programs that    *)
(* change the same file in place, replace or delete it.                       *)
(*                                                                         *)
(* A content is a sequence of blocks; a block is the number of the change that  *)
(* wrote it.  An open file is an inode, which outlives its name; the number of  *)
(* one that is gone is used again.  Every change of an inode gives it new times  *)
(* (_file_state), for which the number of the change stands.                  *)
(***************************************************************************)
EXTENDS Naturals, Sequences, FiniteSets

CONSTANTS
  Agents,
  Blocks,        \* a content has the blocks 1..Blocks; a page is the first of them
  MaxChanges     \* bound on changes of the file

FilesAssumption == Blocks \in Nat \ {0} /\ MaxChanges \in Nat /\ IsFiniteSet(Agents)

VARIABLES
  path,          \* the inode the path names, or None
  inodes,        \* of each inode in use: its blocks and its stamp
  changes,       \* the clock
  call,          \* of each agent: where its tool call is
  source, before,    \* the inode it has open, _file_state when it was opened
  copied,        \* the blocks it has read
  edited,        \* the block an edit replaces
  page,          \* the page it has read
  expected,      \* the content whose digest the agent last received, or <<>>
  late           \* history: the file changed after _replace_edit had looked at it

vars == <<path, inodes, changes, call, source, before, copied, edited, page, expected, late>>

None     == 0
Numbers  == 1..(Cardinality(Agents) + 2)
Contents == [1..Blocks -> 0..MaxChanges]

Init ==
  /\ path = 1 /\ inodes = [n \in {1} |-> [blocks |-> [b \in 1..Blocks |-> 0], stamp |-> 0]]
  /\ changes = 0
  /\ call = [a \in Agents |-> "idle"] /\ source = [a \in Agents |-> None]
  /\ before = [a \in Agents |-> 0] /\ copied = [a \in Agents |-> <<>>]
  /\ edited = [a \in Agents |-> 0]
  /\ page = [a \in Agents |-> 0] /\ expected = [a \in Agents |-> <<>>]
  /\ late = [a \in Agents |-> FALSE]

Goto(a, step) == call' = [call EXCEPT ![a] = step]
Close(a)      == source' = [source EXCEPT ![a] = None]
Ends(a) ==
  /\ Goto(a, "idle") /\ Close(a)
  /\ before' = [before EXCEPT ![a] = 0] /\ copied' = [copied EXCEPT ![a] = <<>>]
  /\ edited' = [edited EXCEPT ![a] = 0] /\ page' = [page EXCEPT ![a] = 0]

\* Planted error: the size alone is compared, which never changes here.
SameSize(n, stamp) == n \in DOMAIN inodes /\ stamp <= changes

\* _file_state of an inode is what it was.
Unchanged(n, stamp) == n \in DOMAIN inodes /\ inodes[n].stamp = stamp

\* Only inodes that are named or open are kept.
Kept(f, p) == inodes' = [n \in DOMAIN f \cap ({p} \cup {source'[a] : a \in Agents}) |-> f[n]]

\* A change of the file, under the eyes of those about to replace it.
Changed ==
  /\ changes < MaxChanges /\ changes' = changes + 1
  /\ late' = [a \in Agents |-> late[a] \/ call[a] = "replace"]

\* A call ends: the result, or an error that leaves the path as it was.
Fail(a) ==
  /\ call[a] # "idle" /\ Ends(a)
  /\ late' = [late EXCEPT ![a] = FALSE]
  /\ Kept(inodes, path)
  /\ UNCHANGED <<path, changes, expected>>

(***************************************************************************)
(* read: a page, then the digest of the whole file, then two looks at whether  *)
(* anything has changed since the file was opened.                            *)
(***************************************************************************)
Open(a, step) ==
  /\ call[a] = "idle" /\ path # None
  /\ Goto(a, step) /\ source' = [source EXCEPT ![a] = path]
  /\ before' = [before EXCEPT ![a] = inodes[path].stamp]
  /\ copied' = [copied EXCEPT ![a] = <<>>]
  /\ UNCHANGED <<path, inodes, changes, expected, late>>

OpenRead(a) == Open(a, "page") /\ UNCHANGED <<edited, page>>

ReadPage(a) ==
  /\ call[a] = "page" /\ Goto(a, "digest")
  /\ page' = [page EXCEPT ![a] = inodes[source[a]].blocks[1]]
  /\ UNCHANGED <<path, inodes, changes, source, before, copied, edited, expected, late>>

\* The next block, for a digest or a copy.
ReadBlock(a) ==
  /\ call[a] \in {"digest", "copy"} /\ Len(copied[a]) < Blocks
  /\ copied' = [copied EXCEPT ![a] = Append(@, inodes[source[a]].blocks[Len(@) + 1])]
  /\ UNCHANGED <<path, inodes, changes, call, source, before, edited, page, expected, late>>

FinishRead(a) ==
  /\ call[a] = "digest" /\ Len(copied[a]) = Blocks
  /\ path = source[a] /\ Unchanged(path, before[a])
  /\ Ends(a) /\ Kept(inodes, path)
  /\ expected' = [expected EXCEPT ![a] = copied[a]]
  /\ UNCHANGED <<path, changes, late>>

(***************************************************************************)
(* edit: the file is copied to a temporary one with a range replaced, if its   *)
(* digest is the expected one; then the copy takes the file's place.           *)
(***************************************************************************)
OpenEdit(a, b) ==
  /\ expected[a] # <<>> /\ Open(a, "copy")
  /\ edited' = [edited EXCEPT ![a] = b]
  /\ UNCHANGED page

\* The digests agree, the copy is synced, the open file is looked at, then closed.
Verify(a) ==
  /\ call[a] = "copy" /\ copied[a] = expected[a]
  /\ Unchanged(source[a], before[a])
  /\ Goto(a, "look") /\ Close(a) /\ edited' = edited
  /\ Kept(inodes, path)
  /\ UNCHANGED <<path, changes, before, copied, page, expected, late>>

\* _replace_edit looks at the path, then renames the copy to it.
Look(a) ==
  /\ call[a] = "look" /\ Unchanged(path, before[a])
  /\ Goto(a, "replace")
  /\ UNCHANGED <<path, inodes, changes, source, before, copied, edited, page, expected, late>>

\* A new inode takes the path.
Place(a, content) ==
  /\ Ends(a)
  /\ path' \in Numbers \ DOMAIN inodes
  /\ Kept([n \in DOMAIN inodes \cup {path'} |->
             IF n = path' THEN [blocks |-> content, stamp |-> changes'] ELSE inodes[n]], path')
  /\ expected' = [expected EXCEPT ![a] = content]

ReplaceEdit(a) ==
  /\ call[a] = "replace" /\ changes < MaxChanges /\ changes' = changes + 1
  /\ late' = [b \in Agents |-> b # a /\ (late[b] \/ call[b] = "replace")]
  /\ Place(a, [copied[a] EXCEPT ![edited[a]] = changes'])

\* write looks at nothing but the mode: until its copy is renamed nobody sees any of it.
Write(a) == call[a] = "idle" /\ Changed /\ Place(a, [b \in 1..Blocks |-> changes'])

(***************************************************************************)
(* Other programs.                                                          *)
(***************************************************************************)
Scribble(b) ==
  /\ path # None /\ Changed
  /\ inodes' = [inodes EXCEPT ![path] = [blocks |-> [@.blocks EXCEPT ![b] = changes'], stamp |-> changes']]
  /\ UNCHANGED <<path, call, source, before, copied, edited, page, expected>>

Delete ==
  /\ path # None /\ Changed /\ path' = None /\ UNCHANGED source
  /\ Kept(inodes, None)
  /\ UNCHANGED <<call, before, copied, edited, page, expected>>

Next ==
  \/ \E a \in Agents :
       \/ OpenRead(a) \/ ReadPage(a) \/ ReadBlock(a) \/ FinishRead(a)
       \/ \E b \in 1..Blocks : OpenEdit(a, b)
       \/ Verify(a) \/ Look(a) \/ ReplaceEdit(a) \/ Write(a) \/ Fail(a)
  \/ \E b \in 1..Blocks : Scribble(b)
  \/ Delete

Spec == Init /\ [][Next]_vars

(***************************************************************************)
(* Properties.                                                              *)
(***************************************************************************)
TypeOK ==
  /\ path \in Numbers \cup {None} /\ (path # None => path \in DOMAIN inodes)
  /\ \A n \in DOMAIN inodes : n \in Numbers /\ inodes[n] \in [blocks : Contents, stamp : 0..MaxChanges]
  /\ changes \in 0..MaxChanges
  /\ call \in [Agents -> {"idle", "page", "digest", "copy", "look", "replace"}]
  /\ \A a \in Agents :
       /\ source[a] \in DOMAIN inodes \cup {None}
       /\ Len(copied[a]) <= Blocks
       /\ expected[a] = <<>> \/ expected[a] \in Contents

\* The digest an agent receives with a result is that of the whole file as it is when
\* the result is given, and the page is a part of it (operations.py _read_file_page,
\* _atomic_edit, _atomic_write).
DigestIsCurrent ==
  \A a \in Agents : expected'[a] # expected[a] =>
    /\ path' # None /\ expected'[a] = inodes'[path'].blocks
    /\ call[a] = "digest" => page[a] = expected'[a][1]

\* An edit replaces the content its agent knew, and changes the range it was asked to
\* change, nothing else: unless somebody changed the file between the last look and the
\* rename (operations.py _EditStreams, _replace_edit).
EditKeepsRest ==
  \A a \in Agents : (call[a] = "replace" /\ path' # path /\ call'[a] = "idle" /\ ~late[a]) =>
    /\ path # None /\ inodes[path].blocks = expected[a]
    /\ \A b \in 1..Blocks \ {edited[a]} : inodes'[path'].blocks[b] = inodes[path].blocks[b]
=============================================================================
