-------------------------------- MODULE Files --------------------------------
(***************************************************************************)
(* The simple file system protocol on a directory of the host              *)
(* (protocols/simple_file_system/posix-fd.c, utils.c).                     *)
(*                                                                         *)
(* A file object of the program stands on a descriptor and counts the      *)
(* objects that were opened through it: it lives on after its own close    *)
(* until the last of them is closed.  Files, descriptors and directory     *)
(* streams of the host are modelled as far as the code uses them: a        *)
(* descriptor is the lowest free number, a stream reads all entries of its *)
(* directory into its buffer at once.                                      *)
(***************************************************************************)
EXTENDS Naturals, FiniteSets, FiniteSetsExt, Paths

CONSTANTS
  Objects,   \* struct efi_file_protocol_private_posix_fd
  NIL,       \* NULL
  Fds,       \* the descriptors the process may have besides its standard ones
  Asked,     \* the paths the program opens
  Volumes,   \* is the volume writable? a subset of BOOLEAN
  Initial    \* files the host may have at first: a set of functions

ASSUME FdsAssumption == Fds \subseteq Nat /\ IsFiniteSet(Fds)
ASSUME ObjectsAssumption == IsFiniteSet(Objects) /\ NIL \notin Objects
ASSUME VolumesAssumption == Volumes \subseteq BOOLEAN
ASSUME InitialAssumption ==
  \A t \in Initial : \A p \in DOMAIN t : t[p] \in {"file", "folder"}

VARIABLES
  writable,  \* fs->writable
  tree,      \* path |-> "file" or "folder": what the volume holds, without its root
  objs,      \* the file objects
  fds,       \* descriptor |-> the path it was opened with
  held,      \* objects the program has opened and not closed
  rootRead,  \* the offset all descriptors of the root share is at the end
  lost,      \* descriptors nobody knows of any more
  astray     \* has LoadImage called close through a pointer it never set?

vars == <<writable, tree, objs, fds, held, rootRead, lost, astray>>

Root == <<>>

\* A file object that is not in use.  leaked: it was never freed, but nobody knows
\* where it is; top: it is a root, read: the descriptor of any other directory was
\* read to its end, buffer: entries the directory stream has read and not given
\* yet, due: entries it must still give.
Free == [live |-> FALSE, leaked |-> FALSE, path |-> Root, folder |-> FALSE, parent |-> NIL,
         refcnt |-> 0, fd |-> 0, top |-> FALSE, read |-> FALSE, buffer |-> {}, due |-> {}]

Live == {h \in Objects : objs[h].live}
Kind(path) == IF path = Root THEN "folder" ELSE IF path \in DOMAIN tree THEN tree[path] ELSE "none"
Entries(path) == {p \in DOMAIN tree : Len(p) = Len(path) + 1 /\ Front(p) = path}
Usable(path) == path # Root => Kind(Front(path)) = "folder"

Init ==
  /\ writable \in Volumes
  /\ tree \in Initial
  /\ objs = [h \in Objects |-> Free]
  /\ fds = << >>
  /\ held = {}
  /\ rootRead = FALSE
  /\ lost = {}
  /\ astray = FALSE

-----------------------------------------------------------------------------
(* The calls, on the state s of objects and descriptors *)

NewFds(s) == Fds \ DOMAIN s.fds
NewObjects(s) == {h \in Objects : ~s.objs[h].live /\ ~s.objs[h].leaked}

WithFd(s, fd, path) == [s EXCEPT !.fds = [f \in DOMAIN @ \cup {fd} |-> IF f = fd THEN path ELSE @[f]]]
WithoutFd(s, fd) == [s EXCEPT !.fds = [f \in DOMAIN @ \ {fd} |-> @[f]]]

\* A file object for the new descriptor, opened through parent
Opened(s, parent, path, folder) ==
  LET h == CHOOSE x \in NewObjects(s) : TRUE
      fd == Min(NewFds(s))
      new == [Free EXCEPT !.live = TRUE, !.path = path, !.folder = folder, !.parent = parent,
                !.refcnt = 1, !.fd = fd, !.top = (parent = NIL),
                !.due = IF folder /\ parent # NIL THEN Entries(path) ELSE {}]
      counted == IF parent = NIL THEN s.objs ELSE [s.objs EXCEPT ![parent].refcnt = @ + 1]
  IN [WithFd(s, fd, path) EXCEPT !.objs = [counted EXCEPT ![h] = new], !.got = h]

Failed(s) == [s EXCEPT !.got = NIL]

\* Faulty variant of CloseStep: the descriptor is closed before the count is looked at.
CloseEagerly(s) ==
  IF s.at = NIL THEN s
  ELSE LET x == s.objs[s.at]
           t == WithoutFd(s, x.fd)
       IN IF x.refcnt > 1 THEN [t EXCEPT !.objs[s.at].refcnt = @ - 1, !.at = NIL]
          ELSE [t EXCEPT !.objs[s.at] = Free, !.at = x.parent]

\* efi_fd_file_close calls itself for the parent of an object that goes.
CloseStep(s) ==
  IF s.at = NIL THEN s
  ELSE LET x == s.objs[s.at]
       IN IF x.refcnt > 1 THEN [s EXCEPT !.objs[s.at].refcnt = @ - 1, !.at = NIL]
          ELSE [WithoutFd(s, x.fd) EXCEPT !.objs[s.at] = Free, !.at = x.parent]

Closed(s, h) ==
  LET after[i \in 0..Cardinality(Objects)] ==
        IF i = 0 THEN [s EXCEPT !.at = h] ELSE CloseStep(after[i - 1])
  IN after[Cardinality(Objects)]

Now == [objs |-> objs, fds |-> fds, got |-> NIL, at |-> NIL]

\* The program asks for reading, and for writing too if w: on a volume that is
\* read-only it gets a descriptor for reading.  To ask for writing only, or for
\* a new file, is refused there.
Writes(w) == writable /\ w

\* openat of what exists, fstat, fdopendir and the new object
OpenExisting(s, p, path, w, d) ==
  LET folder == Kind(path) = "folder"
  IN IF \/ Kind(path) = "none" \/ (d /\ ~folder) \/ (folder /\ Writes(w))
        \/ NewFds(s) = {} \/ NewObjects(s) = {}
     THEN Failed(s)
     ELSE Opened(s, p, path, folder)

Become(s) == objs' = s.objs /\ fds' = s.fds

-----------------------------------------------------------------------------
(* The functions of the protocols *)

\* The descriptor of the root is a duplicate: it shares the offset of fs->fd.
OpenVolume ==
  /\ NewFds(Now) # {} /\ NewObjects(Now) # {}
  /\ LET s == Opened(Now, NIL, Root, TRUE) IN Become(s) /\ held' = held \cup {s.got}
  /\ UNCHANGED <<writable, tree, rootRead, lost, astray>>

OpenFile(p, asked, w, d) ==
  LET path == NamesOf(Merge2(objs[p].path, asked))
      s == OpenExisting(Now, p, path, w, d)
  IN /\ objs[p].folder
     /\ Kind(path) # "none" \/ ~Usable(path)
     /\ Become(s)
     /\ held' = held \cup ({s.got} \ {NIL})
     /\ UNCHANGED <<writable, tree, rootRead, lost, astray>>

\* Of a path that leads nowhere a part is made only if the program asks for it.
\* A new directory is made, but the 0 that mkdirat returns is taken for its
\* descriptor, on which no directory stream can be opened.
CreateFolder(p, asked) ==
  LET path == NamesOf(Merge2(objs[p].path, asked))
  IN /\ objs[p].folder /\ writable
     /\ Kind(path) = "none" /\ Usable(path)
     /\ tree' = [q \in DOMAIN tree \cup {path} |-> IF q = path THEN "folder" ELSE tree[q]]
     /\ UNCHANGED <<writable, objs, fds, held, rootRead, lost, astray>>

\* A new file is opened twice, the first descriptor is forgotten.
CreateFile(p, asked) ==
  LET path == NamesOf(Merge2(objs[p].path, asked))
      first == Min(NewFds(Now))
      s == WithFd(Now, first, path)
  IN /\ objs[p].folder /\ writable
     /\ Kind(path) = "none" /\ Usable(path)
     /\ NewFds(Now) # {}
     /\ tree' = [q \in DOMAIN tree \cup {path} |-> IF q = path THEN "file" ELSE tree[q]]
     /\ LET t == IF NewFds(s) = {} \/ NewObjects(s) = {} THEN Failed(s) ELSE Opened(s, p, path, FALSE)
        IN Become(t) /\ held' = held \cup ({t.got} \ {NIL})
     /\ lost' = lost \cup {first}
     /\ UNCHANGED <<writable, rootRead, astray>>

Close(h) ==
  /\ Become(Closed(Now, h))
  /\ held' = held \ {h}
  /\ UNCHANGED <<writable, tree, rootRead, lost, astray>>

\* Delete closes the object in any case, if only the volume is writable and it
\* is not the root: then it stays open.
CanUnlink(x) ==
  IF x.folder THEN Kind(x.path) = "folder" /\ Entries(x.path) = {} ELSE Kind(x.path) = "file"

\* No directory must give the path any more.
Unlisted(o, path) == [g \in Objects |-> [o[g] EXCEPT !.due = @ \ {path}]]

\* Faulty variant of Delete: the volume is not asked.
DeleteAnyway(h) ==
  LET x == objs[h]
  IN /\ x.path # Root
     /\ IF CanUnlink(x) THEN tree' = [q \in DOMAIN tree \ {x.path} |-> tree[q]] ELSE UNCHANGED tree
     /\ Become(Closed(Now, h))
     /\ held' = held \ {h}
     /\ UNCHANGED <<writable, rootRead, lost, astray>>

Delete(h) ==
  LET x == objs[h]
      s == Closed(Now, h)
  IN /\ writable /\ x.path # Root
     /\ IF CanUnlink(x)
        THEN /\ tree' = [q \in DOMAIN tree \ {x.path} |-> tree[q]]
             /\ Become([s EXCEPT !.objs = Unlisted(s.objs, x.path)])
        ELSE Become(s) /\ UNCHANGED tree
     /\ held' = held \ {h}
     /\ UNCHANGED <<writable, rootRead, lost, astray>>

\* Faulty variant of Remaining: all directories share one offset.
RemainingShared(h) == IF rootRead THEN {} ELSE Entries(objs[h].path)

\* The entries the host still has for the descriptor of a directory
Remaining(h) ==
  IF IF objs[h].top THEN rootRead ELSE objs[h].read THEN {} ELSE Entries(objs[h].path)

AtEnd(h) == objs[h].buffer = {} /\ Remaining(h) = {}

\* One entry of a directory: only an empty buffer is filled from the descriptor.
ReadFolder(h) ==
  LET x == objs[h]
      from == IF x.buffer = {} THEN Remaining(h) ELSE x.buffer
  IN /\ x.folder
     /\ \E e \in from :
          /\ Kind(e) # "none"
          /\ objs' = [objs EXCEPT ![h].buffer = from \ {e}, ![h].due = @ \ {e},
                                  ![h].read = @ \/ (x.buffer = {} /\ ~x.top)]
     /\ rootRead' = (rootRead \/ (x.buffer = {} /\ x.top))
     /\ UNCHANGED <<writable, tree, fds, held, lost, astray>>

\* An entry that was unlinked since it was read into the buffer: fstatat fails.
ReadGone(h) ==
  /\ objs[h].folder
  /\ \E e \in objs[h].buffer : Kind(e) = "none" /\ objs' = [objs EXCEPT ![h].buffer = @ \ {e}]
  /\ UNCHANGED <<writable, tree, fds, held, rootRead, lost, astray>>

\* SetPosition(0) of a directory: the stream keeps what it has in its buffer.
Rewind(h) ==
  /\ objs[h].folder
  /\ objs' = [objs EXCEPT ![h].read = FALSE]
  /\ rootRead' = (rootRead /\ ~objs[h].top)
  /\ UNCHANGED <<writable, tree, fds, held, lost, astray>>

-----------------------------------------------------------------------------
(* efi_file_open_from_device_path, which LoadImage uses: from the root every *)
(* node is opened through the one before, which is closed then               *)

OpenNode(s, name) ==
  IF s.got = NIL THEN s
  ELSE LET path == NamesOf(Merge2(s.objs[s.got].path, name))
           t == IF s.objs[s.got].folder THEN OpenExisting(s, s.got, path, FALSE, FALSE) ELSE Failed(s)
       IN [Closed(t, s.got) EXCEPT !.got = t.got]

OpenedThrough(nodes) ==
  LET after[i \in 0..Len(nodes)] ==
        IF i = 0 THEN Opened(Now, NIL, Root, TRUE) ELSE OpenNode(after[i - 1], nodes[i])
  IN after[Len(nodes)]

OpenFromDevicePath(nodes) ==
  LET s == OpenedThrough(nodes)
  IN /\ NewFds(Now) # {} /\ NewObjects(Now) # {}
     /\ Become(s)
     /\ held' = held \cup ({s.got} \ {NIL})
     /\ UNCHANGED <<writable, tree, rootRead, lost, astray>>

\* The nodes are followed by one that is no media node.  The file of the last one
\* is open and stays so, without anybody who knows it: what is closed is the one it
\* was opened through, for the second time.
Forgotten(s, h) == [s EXCEPT !.objs[h].live = FALSE, !.objs[h].leaked = TRUE]

OpenBeyond(nodes) ==
  LET s == OpenedThrough(nodes)
      child == s.objs[s.got]
  IN /\ NewFds(Now) # {} /\ NewObjects(Now) # {}
     /\ s.got # NIL
     /\ Become(Closed(Forgotten(s, s.got), child.parent))
     /\ lost' = lost \cup {child.fd}
     /\ UNCHANGED <<writable, tree, held, rootRead, astray>>

\* There is no media node at all: the path ends at the volume, or goes on otherwise.
\* close is called through a variable that was never set, which may still hold the
\* address of an object, or of none.  What the program does then is not modelled.
OpenNothing ==
  /\ NewFds(Now) # {} /\ NewObjects(Now) # {}
  /\ LET s == Opened(Now, NIL, Root, TRUE)
     IN \E h \in {g \in Objects : s.objs[g].live} \cup {NIL} : Become(Closed(s, h))
  /\ astray' = TRUE
  /\ UNCHANGED <<writable, tree, held, rootRead, lost>>

Step ==
  \/ OpenVolume
  \/ \E p \in held, asked \in Asked :
       \/ \E w, d \in BOOLEAN : OpenFile(p, asked, w, d)
       \/ CreateFolder(p, asked)
       \/ CreateFile(p, asked)
  \/ \E h \in held : Close(h) \/ Delete(h) \/ ReadFolder(h) \/ ReadGone(h) \/ Rewind(h)
  \/ \E one, two \in Asked : \E nodes \in {<<one>>, <<one, two>>} :
       OpenFromDevicePath(nodes) \/ OpenBeyond(nodes)
  \/ OpenNothing

Next == ~astray /\ Step

Spec == Init /\ [][Next]_vars

-----------------------------------------------------------------------------
(* What the program can rely on *)

\* The type of every variable, a part of HandlesOwned.
TypeOK ==
  /\ writable \in BOOLEAN
  /\ \A p \in DOMAIN tree : tree[p] \in {"file", "folder"}
  /\ DOMAIN fds \subseteq Fds
  /\ lost \subseteq DOMAIN fds
  /\ rootRead \in BOOLEAN
  /\ \A h \in Live : /\ objs[h].fd \in Fds /\ objs[h].parent \in Objects \cup {NIL}
                     /\ objs[h].top = (objs[h].parent = NIL)
                     /\ objs[h].folder \/ objs[h].due = {}

\* An object counts the program and the objects opened through it, and nothing
\* else keeps it: when the program has closed all it opened, none is left.
HandlesCounted ==
  /\ held \subseteq Live
  /\ \A h \in Live :
       objs[h].refcnt = Cardinality({g \in Live : objs[g].parent = h}) + (IF h \in held THEN 1 ELSE 0)
  /\ \A h \in Live : objs[h].refcnt > 0 /\ objs[h].parent \in Live \cup {NIL}

\* Every object has a descriptor of its own, open and still of the file it was
\* opened with; descriptors without an object are those a new file forgets and
\* those of the files OpenBeyond leaves open.
DescriptorsOwned ==
  /\ \A h \in Live : objs[h].fd \in DOMAIN fds \ lost /\ fds[objs[h].fd] = objs[h].path
  /\ \A g, h \in Live : objs[g].fd = objs[h].fd => g = h
  /\ DOMAIN fds = lost \cup {objs[h].fd : h \in Live}

\* Objects and descriptors live exactly as long as somebody holds them
\* (posix-fd.c:198-219), but for the file OpenBeyond leaves open (utils.c:43), which
\* is never freed and whose descriptor is lost; this also says that the second close
\* of the one it was opened through takes nothing that anybody still holds.  Nothing
\* is said once close was called through a pointer that was never set.
HandlesOwned == astray \/ (TypeOK /\ HandlesCounted /\ DescriptorsOwned)

\* No call changes what a read-only volume holds.
ReadOnlyVolume == [][~writable => tree' = tree]_vars

\* A directory that was opened by its name, read until there is no more, has
\* given every entry that has been in it all the time, whatever other objects on
\* the same directory are read or rewound meanwhile; nothing is said once astray.
EveryEntryListed ==
  astray \/ \A h \in Live : objs[h].folder /\ ~objs[h].top /\ AtEnd(h) => objs[h].due = {}
=============================================================================
