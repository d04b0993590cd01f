---------------------------- MODULE DevicePaths ----------------------------
(***************************************************************************)
(* Device paths (lib/efi/device_path.c), as the device path utilities      *)
(* protocol gives them to programs.  A path in memory is the sequence of   *)
(* nodes that its pointer leads to, up to a node that ends the entire      *)
(* path; the nodes before it that end an instance divide it.               *)
(***************************************************************************)
EXTENDS Paths

CONSTANTS
  Lengths,  \* the length field of a node by its kind
  NULL      \* no path

\* The kinds of a node: hardware; file, a name; disk, media that is no file;
\* instance and end, the end nodes; long, an end of the entire path that is longer than
\* its header; broken, a node that is shorter.
Header == 4
Node(kind, name) == [kind |-> kind, name |-> name]
End == Node("end", NULL)
Divider == Node("instance", NULL)

IsEnd(n) == n.kind \in {"end", "long"}
IsEndType(n) == IsEnd(n) \/ n.kind = "instance"
LengthOf(n) == Lengths[n.kind]

\* The path up to its end, and the bytes of some nodes.
Whole(dp) == SubSeq(dp, 1, SelectInSeq(dp, IsEnd))
Bytes(nodes) == FoldLeft(LAMBDA sum, n : sum + LengthOf(n), 0, nodes)

\* efi_device_path_valid without a limit, what every caller asks.
Valid(dp) ==
  /\ dp # NULL
  /\ \A i \in DOMAIN Whole(dp) : LengthOf(Whole(dp)[i]) >= Header
  /\ LengthOf(Last(Whole(dp))) = Header

GetSize(dp) == IF Valid(dp) THEN Bytes(Whole(dp)) ELSE 0

\* As written it goes on to the end of the entire path.
InstanceSize(dp) == IF dp = NULL THEN 0 ELSE Bytes(Front(Whole(dp)))

Dup(dp) == IF GetSize(dp) = 0 THEN NULL ELSE Whole(dp)

AppendPath(dp1, dp2) ==
  IF dp1 = NULL THEN Dup(IF dp2 = NULL THEN <<End>> ELSE dp2)
  ELSE IF dp2 = NULL THEN Dup(dp1)
  ELSE IF ~Valid(dp1) \/ ~Valid(dp2) THEN NULL
  ELSE Front(Whole(dp1)) \o Whole(dp2)

\* A node that is an end has no next one to put another end at.
AppendNode(dp, node) ==
  IF node = NULL THEN Dup(IF dp = NULL THEN <<End>> ELSE dp)
  ELSE AppendPath(dp, IF IsEnd(node) THEN <<node>> ELSE <<node, End>>)

AppendInstance(dp, ins) ==
  IF dp = NULL THEN Dup(ins)
  ELSE IF ~Valid(dp) \/ ~Valid(ins) THEN NULL
  ELSE Front(Whole(dp)) \o <<Divider>> \o Whole(ins)

\* Faulty variant of NextInstance: the divider stays an end of the entire path.
NextInstanceCut(dp) ==
  IF ~Valid(dp) THEN [ret |-> NULL, size |-> 0, dp |-> dp, memory |-> dp]
  ELSE LET e == SelectInSeq(dp, IsEndType)
           cut == [dp EXCEPT ![e] = End]
       IN [ret |-> Dup(cut), size |-> Bytes(SubSeq(dp, 1, e - 1)) + Header, dp |-> NULL, memory |-> cut]

\* The caller's path is changed for the copy and changed back.
NextInstance(dp) ==
  IF ~Valid(dp) THEN [ret |-> NULL, size |-> 0, dp |-> dp, memory |-> dp]
  ELSE LET e == SelectInSeq(dp, IsEndType)
           cut == [dp EXCEPT ![e] = End]
           back == [cut EXCEPT ![e] = dp[e]]
       IN [ret |-> Dup(cut), size |-> Bytes(SubSeq(dp, 1, e - 1)) + Header,
           dp |-> IF IsEnd(back[e]) THEN NULL ELSE SubSeq(back, e + 1, Len(back)), memory |-> back]

MultiInstance(dp) == Valid(dp) /\ \E i \in DOMAIN Whole(dp) : Whole(dp)[i].kind = "instance"

CreateNode(kind) == IF Lengths[kind] < Header THEN NULL ELSE Node(kind, NULL)

FromFile(parent, file) == AppendPath(parent, <<Node("file", file), End>>)

\* As written every media node counts as a file, whatever its bytes.
NameStep(path, n) ==
  IF n.kind \notin {"file", "disk"} THEN path
  ELSE IF path = <<>> THEN <<n.name>>
  ELSE path \o <<SEP, n.name>>
GetPath(dp) == Resolve(FoldLeft(NameStep, <<>>, Front(Whole(dp))))

\* efi_locate_device_path_impl compares bytes, of which a node has as many as its
\* length says.
Content(nodes) == FlattenSeq([i \in DOMAIN nodes |-> [k \in 1..LengthOf(nodes[i]) |-> <<nodes[i], k>>]])

\* Of the paths of the handles that have the protocol, in the order of the database,
\* the first of the longest that begin the caller's: its place, 0 if there is none,
\* and where the caller's path is left.  A handle without a path has NULL.
LocateDevicePath(dp, paths) ==
  LET len == InstanceSize(dp)
      Step(best, i) ==
        LET size == InstanceSize(paths[i])
        IN IF size <= best.len \/ size > len THEN best
           ELSE IF SubSeq(Content(Whole(dp)), 1, size) # SubSeq(Content(Whole(paths[i])), 1, size) THEN best
           ELSE [device |-> i, len |-> size]
      best == FoldLeft(Step, [device |-> 0, len |-> 0], [i \in DOMAIN paths |-> i])
  IN [device |-> best.device,
      rest |-> CHOOSE rest \in {SubSeq(dp, n, Len(dp)) : n \in 1..Len(Whole(dp))} :
                 Bytes(Front(Whole(dp))) - Bytes(Front(Whole(rest))) = best.len]

-----------------------------------------------------------------------------
(* What a device path is: instances, each a sequence of nodes *)

InstancesOf(dp) ==
  FoldLeft(LAMBDA all, n : IF n.kind = "instance" THEN Append(all, <<>>)
                           ELSE [all EXCEPT ![Len(all)] = Append(@, n)],
           <<<<>>>>, Front(Whole(dp)))

Joined(a, b) == Front(a) \o <<Last(a) \o Head(b)>> \o Tail(b)

IsPath(dp, instances) == Valid(dp) /\ InstancesOf(dp) = instances

\* The instances come one by one, and the path they are taken from stays as it is.
Iterates(dp) ==
  LET first == NextInstance(dp)
      all == InstancesOf(dp)
  IN /\ first.memory = dp
     /\ IsPath(first.ret, <<Head(all)>>) /\ first.size = GetSize(first.ret)
     /\ IF Len(all) = 1 THEN first.dp = NULL ELSE IsPath(first.dp, Tail(all))

\* The device found is the one whose nodes are the most of those the path begins with,
\* the rest is what follows them.
IsLocated(dp, paths) ==
  LET r == LocateDevicePath(dp, paths)
      nodes == Front(Whole(dp))
      fit == {i \in DOMAIN paths :
                paths[i] # NULL /\ Len(Whole(paths[i])) > 1 /\ IsPrefix(Front(Whole(paths[i])), nodes)}
  IN IF fit = {} THEN r.device = 0 /\ r.rest = dp
     ELSE /\ r.device \in fit /\ Front(Whole(paths[r.device])) \o r.rest = dp
          /\ \A i \in fit : Len(paths[i]) <= Len(paths[r.device])

\* What the operations must make of the paths p and q and the node n.
IsAlgebra(p, q, n) ==
  LET ip == InstancesOf(p)
      iq == InstancesOf(q)
      good == Valid(p) /\ Valid(q)
  IN /\ good => /\ IsPath(AppendPath(p, q), Joined(ip, iq))
                /\ IsPath(AppendInstance(p, q), ip \o iq)
                /\ GetSize(AppendPath(p, q)) = GetSize(p) + GetSize(q) - Header
                /\ InstanceSize(p) = GetSize(p) - Header
     /\ ~good => AppendPath(p, q) = NULL /\ AppendInstance(p, q) = NULL
     /\ Valid(p) => /\ Iterates(p)
                    /\ MultiInstance(p) <=> Len(ip) > 1
                    /\ good => IsLocated(AppendPath(p, q), <<q, p, NULL, AppendNode(p, n), AppendInstance(q, p)>>)
                    /\ IsPath(AppendPath(p, NULL), ip) /\ IsPath(AppendPath(NULL, p), ip)
                    /\ ~IsEndType(n) /\ CreateNode(n.kind) # NULL
                         => IsPath(AppendNode(p, n), Joined(ip, <<<<n>>>>))
                    /\ \A i \in DOMAIN p : p[i].kind # "disk"
                         => GetPath(FromFile(p, "a")) = Resolve(Append(GetPath(p) \o <<SEP>>, "a"))
=============================================================================
