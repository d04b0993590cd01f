------------------------------ MODULE Protocols ------------------------------
(***************************************************************************)
(* The protocol database of efi-wrapper/efi/tables/protocol.c and          *)
(* handles.c, and the connection of drivers of controller.c.               *)
(*                                                                         *)
(* A handle holds interfaces, one for each GUID; an interface holds the    *)
(* records of the agents that opened it.  Connecting a controller calls    *)
(* the functions of drivers, which are programs: they call the services    *)
(* again in the middle of the service that called them.  As in Events the  *)
(* C call stack is a variable.  A "call" frame is a program's function;    *)
(* the other frames are services that wait for a function or for a service *)
(* they called themselves, whose status is ret.  A function may also Exit: *)
(* the innermost program ends, and with it all the frames above its own.   *)
(***************************************************************************)
EXTENDS Integers, Sequences, FiniteSets, SequencesExt

CONSTANTS
  MaxHandles,    \* bound on the handles created
  Guid,          \* the protocols
  Binding,       \* gEfiDriverBindingProtocolGuid
  Interface,     \* interface pointers
  NoInterface,   \* the NULL interface
  Given,         \* the protocols of the handles there are before programs call
  Installs,      \* the arguments InstallProtocolInterface may be called with
  InstallLists,  \* the arguments of InstallMultipleProtocolInterfaces
  Registers,     \* the protocols RegisterProtocolNotify may be called for
  Opens,         \* the arguments of OpenProtocol
  Connects,      \* the arguments of ConnectController
  Disconnects,   \* the arguments of DisconnectController
  May,           \* the services a program may call from each of its functions
  MayGiveUp,     \* may a driver that stopped its children fail to stop itself?
  MaxNotifies,   \* bound on the registrations
  MaxCount,      \* bound on the count of the records at such a call
  MaxDepth       \* bound on the call stack when a program calls a service but Close or Exit

NULL == 0
Handle == 1 .. MaxHandles  \* numbered in the order of their creation

Attribute == {"handle", "get", "test", "child", "driver", "exclusive"}
Valued == {{a} : a \in Attribute} \cup {{"driver", "exclusive"}}

Pair == [guid : Guid, intf : Interface \cup {NoInterface}]
Function == {"main", "image", "supported", "start", "stop", "notify"}
ServiceName == {"Install", "InstallMultiple", "Reinstall", "Uninstall", "Register",
                "Open", "Close", "Connect", "Disconnect", "StartImage", "Exit"}

ASSUME BoundAssumption ==
  {MaxHandles, MaxNotifies, MaxCount, MaxDepth} \subseteq Nat
ASSUME GuidAssumption == Binding \in Guid /\ NoInterface \notin Interface
ASSUME GivenAssumption ==
  /\ Given \in Seq(Seq([guid : Guid, intf : Interface]))
  /\ Len(Given) <= MaxHandles
  /\ \A h \in DOMAIN Given : \A k, l \in DOMAIN Given[h] :
       Given[h][k].guid = Given[h][l].guid => k = l
ASSUME CallAssumption ==
  /\ Installs \subseteq [handle : Handle \cup {NULL}, guid : Guid, intf : Interface]
  /\ Registers \subseteq Guid
  /\ \A l \in InstallLists : l.handle \in Handle \cup {NULL} /\ l.pairs \in Seq(Pair)
  /\ Opens \subseteq [handle : Handle, guid : Guid, agent : Handle \cup {NULL},
                      controller : Handle \cup {NULL}, attrs : Valued]
  /\ Connects \subseteq [controller : Handle, recursive : BOOLEAN, end : BOOLEAN]
  /\ Disconnects \subseteq [controller : Handle, driver : Handle \cup {NULL},
                            child : Handle \cup {NULL}]
ASSUME MayAssumption ==
  May \in [Function -> SUBSET ServiceName] /\ MayGiveUp \in BOOLEAN

VARIABLES
  made,     \* ctx->handles: the handles 1 .. made, in this order
  ifaces,   \* handle->interface, with the open_list of each interface
  notifies, \* ctx->notifies: the protocol and the handles of each registration
  stack,    \* the calls in progress, innermost last
  ret,      \* the status the last call returned, "none" when one was entered
  unlisted  \* history: the handles each registration passes over, those that had the
            \* protocol before and those whose Install was cut by an Exit

vars == <<made, ifaces, notifies, stack, ret, unlisted>>

\* A record is known by its key; a walk that reached the end is at NoRecord,
\* a walk whose next record was freed under it is at Freed.
Key(a, c, attrs) == [agent |-> a, controller |-> c, attrs |-> attrs]
KeyOf(r)  == Key(r.agent, r.controller, r.attrs)
NoRecord  == Key(NULL, NULL, {})
Freed     == Key(NULL, NULL, {"freed"})

Frame ==
  [op : {"install", "multi", "rollback", "reinstall", "uninstall", "disconnectAll",
         "disconnect", "open", "connect", "bind", "walk", "call"},
   fn : Function,                          \* the function a "call" frame is in
   h : Handle \cup {NULL},                 \* the handle or controller
   g : Guid, i : Interface \cup {NoInterface},
   d : Handle \cup {NULL},                 \* the driver or agent
   c : Handle \cup {NULL},                 \* the child or controller
   attrs : SUBSET Attribute,
   pairs : Seq(Pair),                      \* the list of InstallMultiple
   todo : Seq(Handle),                     \* drivers still to be visited
   cur : [agent : Handle \cup {NULL}, controller : Handle \cup {NULL},
          attrs : SUBSET (Attribute \cup {"freed"})],  \* the record to read next
   pos : Nat,                              \* a position or the phase reached
   ok : BOOLEAN,                           \* what the loop found so far
   st : {"none", "success", "invalid_parameter", "not_found", "unsupported",
         "access_denied", "already_started", "device_error"}]

Status == {"none", "success", "invalid_parameter", "not_found", "unsupported",
           "access_denied", "already_started", "device_error"}

F(op) == [op |-> op, fn |-> "main", h |-> NULL, g |-> Binding, i |-> NoInterface,
          d |-> NULL, c |-> NULL, attrs |-> {}, pairs |-> <<>>, todo |-> <<>>,
          cur |-> NoRecord, pos |-> 0, ok |-> FALSE, st |-> "none"]

Call(fn, h, d) == [F("call") EXCEPT !.fn = fn, !.h = h, !.d = d]

-----------------------------------------------------------------------------
(* Reading the database *)

Valid(h) == h \in 1 .. made

\* The elements of s at the positions K, in order.
Kept(s, K) ==
  LET f[n \in 0 .. Len(s)] ==
        IF n = 0 THEN <<>> ELSE IF n \in K THEN Append(f[n - 1], s[n]) ELSE f[n - 1]
  IN  f[Len(s)]

Position(ifs, h, g) == CHOOSE k \in DOMAIN ifs[h] : ifs[h][k].guid = g
Has(h, g)   == Valid(h) /\ \E k \in DOMAIN ifaces[h] : ifaces[h][k].guid = g
Entry(h, g) == ifaces[h][Position(ifaces, h, g)]

AllHandles == [h \in 1 .. made |-> h]
LocateHandle(g) == Kept(AllHandles, {h \in 1 .. made : Has(h, g)})

\* LocateProtocol for a registration: the interface of its first handle.
LocateRegistered(n) ==
  IF n.handles = <<>> THEN NoInterface ELSE Entry(Head(n.handles), n.guid).intf

\* The records of the interfaces of h for the protocols gs, one list after the other.
Records(h, gs) ==
  LET f[k \in 0 .. Len(ifaces[h])] ==
        IF k = 0 THEN <<>>
        ELSE f[k - 1] \o IF ifaces[h][k].guid \in gs THEN ifaces[h][k].opens ELSE <<>>
  IN  f[Len(ifaces[h])]

\* The drivers that opened them, each once, in the order of their first records.
AgentsOf(h, gs) ==
  LET records == Records(h, gs)
      IsDriver(k) == "driver" \in records[k].attrs
      first == {k \in DOMAIN records : IsDriver(k) /\ \A l \in 1 .. k - 1 :
                  ~(IsDriver(l) /\ records[l].agent = records[k].agent)}
      drivers == Kept(records, first)
  IN  [k \in DOMAIN drivers |-> drivers[k].agent]

HasChildren(h, d) ==
  \E k \in DOMAIN ifaces[h] : \E r \in ToSet(ifaces[h][k].opens) :
    r.agent = d /\ "child" \in r.attrs

\* ProtocolsPerHandle and OpenProtocolInformation.
ProtocolsPerHandle(h) == [k \in DOMAIN ifaces[h] |-> ifaces[h][k].guid]
OpenInformation(h, k) ==
  LET opens == ifaces[h][k].opens IN Kept(opens, {n \in DOMAIN opens : opens[n].count > 0})

\* No open_list was left pointing at a freed node.
Intact == \A h \in 1 .. made : \A k \in DOMAIN ifaces[h] : ~ifaces[h][k].freed

Top == stack[Len(stack)]
Replace(f) == Append(Front(stack), f)
Running(op) == Intact /\ stack # <<>> /\ Top.op = op

\* The program's function that has the processor, and who it acts for.
Runs(fn) == IF stack = <<>> THEN fn = "main" ELSE Top.op = "call" /\ Top.fn = fn
ActsFor(a) == (\E fn \in {"main", "image", "notify"} : Runs(fn)) \/ (stack # <<>> /\ Top.d = a)
ActsOn(h)  == Runs("start") => Top.h = h
Client(service) ==
  /\ Intact
  /\ \E fn \in Function : Runs(fn) /\ service \in May[fn]
  /\ service \notin {"Close", "Exit"} =>
       /\ Len(stack) <= MaxDepth
       /\ \A h \in 1 .. made : \A k \in DOMAIN ifaces[h] :
            \A r \in ToSet(ifaces[h][k].opens) : r.count <= MaxCount

-----------------------------------------------------------------------------
(* Pieces of service calls.  Each takes the call stack s of its caller.    *)

Return(s, status) == stack' = s /\ ret' = status
Enter(s) == stack' = s /\ ret' = "none"

\* A record of this key is counted once more, or made.
Counted(opens, key) ==
  IF \E r \in ToSet(opens) : KeyOf(r) = key
  THEN [k \in DOMAIN opens |->
         IF KeyOf(opens[k]) = key THEN [opens[k] EXCEPT !.count = @ + 1] ELSE opens[k]]
  ELSE Append(opens, [agent |-> key.agent, controller |-> key.controller,
                      attrs |-> key.attrs, count |-> 1])

Opened(h, g, key) ==
  [ifaces EXCEPT ![h][Position(ifaces, h, g)].opens = Counted(@, key)]

\* The walks of s at one of the records of this list that are freed have lost
\* their place.
Unhooked(s, h, g, freed) ==
  [k \in DOMAIN s |->
    IF s[k].op \in {"open", "walk"} /\ s[k].h = h /\ s[k].g = g
       /\ s[k].cur \in {KeyOf(r) : r \in freed}
    THEN [s[k] EXCEPT !.cur = Freed] ELSE s[k]]

\* CloseProtocol: all records of the agent and controller, whatever they are for.
CloseAt(s, h, g, a, c) ==
  LET opens == Entry(h, g).opens
      closed == {k \in DOMAIN opens : opens[k].agent = a /\ opens[k].controller = c}
  IN  /\ ifaces' = [ifaces EXCEPT ![h][Position(ifaces, h, g)].opens =
                      Kept(opens, DOMAIN opens \ closed)]
      /\ stack' = Unhooked(s, h, g, {opens[k] : k \in closed})

\* efi_disconnect_all_drivers, for the protocols gs.
DisconnectAllAt(s, h, gs, child) ==
  LET drivers == AgentsOf(h, gs)
  IN  /\ UNCHANGED ifaces
      /\ IF drivers = <<>>
         THEN Return(s, "success")
         ELSE Enter(Append(s, [F("disconnectAll") EXCEPT
                !.h = h, !.c = child, !.todo = Reverse(drivers)]))

\* efi_disconnect_controller_impl.  A given child sets the count of children
\* to 0: the driver is not stopped at all, its binding is opened and closed.
DisconnectAt(s, c, d, child) ==
  IF ~Valid(c) \/ (child # NULL /\ ~Valid(child))
  THEN Return(s, "invalid_parameter") /\ UNCHANGED ifaces
  ELSE IF d = NULL
  THEN DisconnectAllAt(s, c, Guid, child)
  ELSE IF ~Has(d, Binding)
  THEN Return(s, "invalid_parameter") /\ UNCHANGED ifaces
  ELSE IF child # NULL
  THEN CloseAt(s, d, Binding, d, NULL) /\ ret' = "success"
  ELSE /\ ifaces' = Opened(d, Binding, Key(d, NULL, {"get"}))
       /\ Enter(s \o <<[F("disconnect") EXCEPT !.h = c, !.d = d,
                          !.pos = IF HasChildren(c, d) THEN 1 ELSE 2],
                       Call("stop", c, d)>>)

NewEntry(g, i) == [guid |-> g, intf |-> i, opens |-> <<>>, freed |-> FALSE]

\* The checks and the new interface of efi_install_protocol_interface_impl, for
\* a valid handle.
InstallAt(s, h, g, i) ==
  IF i # NoInterface /\ ~\E k \in DOMAIN ifaces[h] : ifaces[h][k].guid = g
  THEN /\ ifaces' = [ifaces EXCEPT ![h] = Append(@, NewEntry(g, i))]
       /\ Enter(Append(s, [F("install") EXCEPT !.h = h, !.g = g, !.pos = 1]))
  ELSE Return(s, "invalid_parameter") /\ UNCHANGED ifaces

UninstallAt(s, h, g, i) ==
  IF Has(h, g)
  THEN DisconnectAllAt(Append(s, [F("uninstall") EXCEPT !.h = h, !.g = g, !.i = i]),
                       h, {g}, NULL)
  ELSE /\ Return(s, IF Valid(h) THEN "not_found" ELSE "invalid_parameter")
       /\ UNCHANGED ifaces

\* ConnectController forgets the caller's drivers (*driver=NULL): the drivers
\* of the database are tried in the order of their handles.
ConnectAt(s, c, recursive, end) ==
  /\ UNCHANGED ifaces
  /\ IF Valid(c)
     THEN Enter(Append(s, [F("connect") EXCEPT
            !.h = c, !.todo = LocateHandle(Binding), !.ok = end,
            !.pos = IF recursive THEN 1 ELSE 0, !.st = IF end THEN "success" ELSE "none"]))
     ELSE Return(s, "invalid_parameter")

-----------------------------------------------------------------------------
(* Services                                                                *)

\* A NULL handle gets a new one, even if the call fails afterwards.
Target(handle) == IF handle = NULL THEN made + 1 ELSE handle
MakesTarget(handle) ==
  /\ Target(handle) \in Handle
  /\ made' = IF handle = NULL THEN made + 1 ELSE made

InstallProtocolInterface(a) ==
  /\ Client("Install")
  /\ MakesTarget(a.handle)
  /\ IF Target(a.handle) \in 1 .. made'
     THEN InstallAt(stack, Target(a.handle), a.guid, a.intf)
     ELSE Return(stack, "invalid_parameter") /\ UNCHANGED ifaces
  /\ UNCHANGED <<notifies, unlisted>>

\* Faulty variant of Notify: a registration gets its first handle only.
NotifyOnce ==
  LET rest == {k \in DOMAIN notifies :
                k >= Top.pos /\ notifies[k].guid = Top.g /\ notifies[k].handles = <<>>}
  IN  /\ Running("install")
      /\ IF rest = {}
         THEN Return(Front(stack), "success") /\ UNCHANGED notifies
         ELSE /\ notifies' = [notifies EXCEPT ![Min(rest)].handles = <<Top.h>>]
              /\ Enter(Replace([Top EXCEPT !.pos = Min(rest) + 1]))
      /\ UNCHANGED <<made, ifaces, unlisted>>

\* The loop over the registrations: the handle is recorded and the event is
\* signalled, which may run its function now or leave it queued.
Notify ==
  LET rest == {k \in DOMAIN notifies : k >= Top.pos /\ notifies[k].guid = Top.g}
  IN  /\ Running("install")
      /\ IF rest = {}
         THEN Return(Front(stack), "success") /\ UNCHANGED notifies
         ELSE LET k == Min(rest)
                  waiting == Replace([Top EXCEPT !.pos = k + 1])
              IN  /\ notifies' = [notifies EXCEPT ![k].handles = Append(@, Top.h)]
                  /\ \E now \in BOOLEAN :
                       Enter(IF now THEN Append(waiting, Call("notify", NULL, NULL))
                             ELSE waiting)
      /\ UNCHANGED <<made, ifaces, unlisted>>

InstallMultiple(a) ==
  /\ Client("InstallMultiple")
  /\ MakesTarget(a.handle)
  /\ IF Target(a.handle) \in 1 .. made' /\ \A p \in ToSet(a.pairs) : p.intf # NoInterface
     THEN Enter(Append(stack, [F("multi") EXCEPT
            !.h = Target(a.handle), !.pairs = a.pairs, !.pos = 1]))
     ELSE Return(stack, "invalid_parameter")
  /\ UNCHANGED <<ifaces, notifies, unlisted>>

\* The pairs are installed until one fails; then all of them are uninstalled.
InstallNext ==
  /\ Running("multi")
  /\ IF ret \notin {"none", "success"}
     THEN /\ Enter(Replace([Top EXCEPT !.op = "rollback", !.pos = 1, !.st = ret]))
          /\ UNCHANGED ifaces
     ELSE IF Top.pos > Len(Top.pairs)
     THEN Return(Front(stack), "success") /\ UNCHANGED ifaces
     ELSE InstallAt(Replace([Top EXCEPT !.pos = @ + 1]), Top.h,
                    Top.pairs[Top.pos].guid, Top.pairs[Top.pos].intf)
  /\ UNCHANGED <<made, notifies, unlisted>>

RollBack ==
  /\ Running("rollback")
  /\ IF Top.pos > Len(Top.pairs)
     THEN Return(Front(stack), Top.st) /\ UNCHANGED ifaces
     ELSE UninstallAt(Replace([Top EXCEPT !.pos = @ + 1]), Top.h,
                      Top.pairs[Top.pos].guid, Top.pairs[Top.pos].intf)
  /\ UNCHANGED <<made, notifies, unlisted>>

ReinstallProtocolInterface(h, g, old, new) ==
  /\ Client("Reinstall")
  /\ UninstallAt(Append(stack, [F("reinstall") EXCEPT !.h = h, !.g = g, !.i = new, !.pos = 1]),
                 h, g, old)
  /\ UNCHANGED <<made, notifies, unlisted>>

\* Uninstalled, the new interface is installed and the handle connected again.
ReinstallNext ==
  /\ Running("reinstall")
  /\ IF Top.pos = 3
     THEN Return(Front(stack), "success") /\ UNCHANGED ifaces
     ELSE IF ret # "success"
     THEN Return(Front(stack), ret) /\ UNCHANGED ifaces
     ELSE IF Top.pos = 2
     THEN ConnectAt(Replace([Top EXCEPT !.pos = 3]), Top.h, TRUE, FALSE)
     ELSE InstallAt(Replace([Top EXCEPT !.pos = 2]), Top.h, Top.g, Top.i)
  /\ UNCHANGED <<made, notifies, unlisted>>

UninstallProtocolInterface(h, g, i) ==
  /\ Client("Uninstall")
  /\ UninstallAt(stack, h, g, i)
  /\ UNCHANGED <<made, notifies, unlisted>>

\* The records that do not hold the interface are deleted as if they were in
\* the list of interfaces.  That does nothing when the handle has only one;
\* otherwise they are unlinked and freed, but entry->open_list keeps pointing
\* at its first node.  The interface is looked up in its own open_list and so
\* stays where it is.
UninstallEnds ==
  LET e == Entry(Top.h, Top.g)
      alone == Len(ifaces[Top.h]) = 1
      light == {k \in DOMAIN e.opens : e.opens[k].attrs \in {{"handle"}, {"get"}, {"test"}}}
  IN  /\ Running("uninstall")
      /\ IF e.opens = <<>>
         THEN /\ Return(Front(stack), IF Top.i = e.intf THEN "success" ELSE "not_found")
              /\ UNCHANGED ifaces
         ELSE IF alone
         THEN Return(Front(stack), "access_denied") /\ UNCHANGED ifaces
         ELSE /\ ifaces' = [ifaces EXCEPT ![Top.h][Position(ifaces, Top.h, Top.g)] =
                   [e EXCEPT !.opens = Kept(e.opens, DOMAIN e.opens \ light),
                             !.freed = 1 \in light]]
              /\ stack' = Unhooked(Front(stack), Top.h, Top.g, {e.opens[k] : k \in light})
              /\ ret' = "access_denied"
      /\ UNCHANGED <<made, notifies, unlisted>>

RegisterProtocolNotify(g) ==
  /\ Client("Register")
  /\ Len(notifies) < MaxNotifies
  /\ notifies' = Append(notifies, [guid |-> g, handles |-> <<>>])
  /\ unlisted' = Append(unlisted, ToSet(LocateHandle(g)))
  /\ ret' = "success"
  /\ UNCHANGED <<made, ifaces, stack>>

\* What OpenProtocol answers before it looks at the other openers.
OpenRefusal(o) ==
  IF ~Valid(o.handle) \/ (o.attrs = {"child"} /\ o.agent = o.controller)
       \/ (o.attrs \cap {"child", "driver"} # {} /\ ~Valid(o.controller))
       \/ (o.attrs \cap {"child", "driver", "exclusive"} # {} /\ ~Valid(o.agent))
  THEN "invalid_parameter"
  ELSE IF ~Has(o.handle, o.guid) THEN "unsupported" ELSE "none"

\* Faulty variant of Conflict: a driver is not kept out by an exclusive opener.
ConflictOfDrivers(o, opens) ==
  IF "driver" \in o.attrs /\ \E r \in opens : r.agent = o.agent /\ r.attrs = o.attrs
  THEN "already_started"
  ELSE IF \/ "exclusive" \in o.attrs /\ \E r \in opens : "exclusive" \in r.attrs
          \/ o.attrs = {"driver"} /\ \E r \in opens : r.agent # o.agent /\ r.attrs = o.attrs
  THEN "access_denied" ELSE "none"

\* What the records already there make it answer.
Conflict(o, opens) ==
  LET exclusive == \E r \in opens : "exclusive" \in r.attrs
      driven    == \E r \in opens : r.agent # o.agent /\ "driver" \in r.attrs
  IN  IF "driver" \in o.attrs /\ \E r \in opens : r.agent = o.agent /\ r.attrs = o.attrs
      THEN "already_started"
      ELSE IF \/ "exclusive" \in o.attrs /\ exclusive
              \/ o.attrs = {"driver"} /\ (exclusive \/ driven)
      THEN "access_denied" ELSE "none"

OpenProtocol(o) ==
  LET refusal == OpenRefusal(o)
      opens == IF Has(o.handle, o.guid) THEN ToSet(Entry(o.handle, o.guid).opens) ELSE {}
      conflict == Conflict(o, opens)
  IN  /\ Client("Open") /\ ActsFor(o.agent) /\ ActsOn(o.handle)
      /\ IF refusal # "none"
         THEN Return(stack, refusal) /\ UNCHANGED ifaces
         ELSE IF o.agent = NULL
         THEN Return(stack, "success") /\ UNCHANGED ifaces
         ELSE IF conflict # "none"
         THEN Return(stack, conflict) /\ UNCHANGED ifaces
         ELSE IF "exclusive" \in o.attrs
         THEN /\ Enter(Append(stack, [F("open") EXCEPT !.h = o.handle, !.g = o.guid,
                         !.d = o.agent, !.c = o.controller, !.attrs = o.attrs]))
              /\ UNCHANGED ifaces
         ELSE /\ ifaces' = Opened(o.handle, o.guid, Key(o.agent, o.controller, o.attrs))
              /\ Return(stack, "success")
      /\ UNCHANGED <<made, notifies, unlisted>>

\* Faulty variant of StartOver: the walk always goes on from the saved record.
NeverOver(status) == status = "none"

\* The exclusive opener disconnects the drivers of the list one by one: after
\* a success from the head of the list again, after a failure from the record
\* it saved before the call.
StartOver(status) == status \in {"none", "success"}

\* Faulty variant of PlaceOf: a walk goes on from the first record.
PlaceOfFirst(opens, key) == IF key = NoRecord THEN Len(opens) + 1 ELSE 1

PlaceOf(opens, key) ==
  IF key = NoRecord THEN Len(opens) + 1
  ELSE CHOOSE k \in DOMAIN opens : KeyOf(opens[k]) = key

\* A walk may go on unless the record it is at was freed.
Lost ==
  /\ Top.cur = Freed
  /\ Top.op = "walk" \/ (Top.op = "open" /\ ~StartOver(ret))

DisconnectOwners ==
  LET opens == Entry(Top.h, Top.g).opens
      from  == IF StartOver(ret) THEN 1 ELSE PlaceOf(opens, Top.cur)
      owners == {k \in DOMAIN opens : k >= from /\ opens[k].attrs = {"driver"}}
      failed == Top.ok \/ ret \notin {"none", "success"}
  IN  /\ Running("open") /\ ~Lost
      /\ IF owners # {}
         THEN LET k == Min(owners)
                  next == IF k = Len(opens) THEN NoRecord ELSE KeyOf(opens[k + 1])
              IN  DisconnectAt(Replace([Top EXCEPT !.cur = next, !.ok = failed]),
                               opens[k].controller, opens[k].agent, NULL)
         ELSE IF failed
         THEN Return(Front(stack), "access_denied") /\ UNCHANGED ifaces
         ELSE /\ ifaces' = Opened(Top.h, Top.g, Key(Top.d, Top.c, Top.attrs))
              /\ Return(Front(stack), "success")
      /\ UNCHANGED <<made, notifies, unlisted>>

CloseProtocol(h, g, a, c) ==
  LET acted == IF stack = <<>> THEN stack ELSE Replace([Top EXCEPT !.ok = TRUE])
      closes == /\ Has(h, g) /\ Valid(a) /\ (c = NULL \/ Valid(c))
                /\ \E r \in ToSet(Entry(h, g).opens) : r.agent = a /\ r.controller = c
  IN  /\ Client("Close") /\ ActsFor(a)
      /\ IF closes
         THEN CloseAt(acted, h, g, a, c) /\ ret' = "success"
         ELSE /\ Return(stack, IF Valid(h) /\ Valid(a) /\ (c = NULL \/ Valid(c))
                               THEN "not_found" ELSE "invalid_parameter")
              /\ UNCHANGED ifaces
      /\ UNCHANGED <<made, notifies, unlisted>>

ConnectController(a) ==
  /\ Client("Connect")
  /\ ConnectAt(stack, a.controller, a.recursive, a.end)
  /\ UNCHANGED <<made, notifies, unlisted>>

\* efi_connect_single_controller: each driver found is bound in its turn, its
\* binding open while its functions run; then the children are walked.
ConnectNext ==
  LET ok == Top.ok \/ ret = "success"
  IN  /\ Running("connect")
      /\ IF Top.todo # <<>>
         THEN LET d == Head(Top.todo)
              IN  /\ ifaces' = Opened(d, Binding, Key(d, NULL, {"get"}))
                  /\ Enter(Replace([Top EXCEPT !.todo = Tail(@), !.ok = ok])
                           \o <<[F("bind") EXCEPT !.h = Top.h, !.d = d, !.pos = 1],
                                Call("supported", Top.h, d)>>)
         ELSE /\ UNCHANGED ifaces
              /\ IF Top.pos = 1
                 THEN Enter(Replace([Top EXCEPT !.op = "walk", !.pos = 0, !.ok = ok]))
                 ELSE Return(Front(stack), IF ok THEN "success" ELSE "not_found")
      /\ UNCHANGED <<made, notifies, unlisted>>

\* efi_bind_controller: a driver that supports the controller is started.
BindNext ==
  /\ Running("bind")
  /\ IF Top.pos = 1 /\ ret = "success"
     THEN /\ Enter(Append(Replace([Top EXCEPT !.pos = 2]), Call("start", Top.h, Top.d)))
          /\ UNCHANGED ifaces
     ELSE /\ CloseAt(Front(stack), Top.d, Binding, Top.d, NULL)
          /\ ret' = ret
  /\ UNCHANGED <<made, notifies, unlisted>>

\* The recursion of ConnectController: from the record it is at, the walk goes
\* to the next record of a child, in this interface or a later one.
WalkNext ==
  LET ok == Top.ok \/ ret = "success"
      opens(k) == ifaces[Top.h][k].opens
      here == IF Top.cur = NoRecord THEN 0 ELSE PlaceOf(opens(Top.pos), Top.cur)
      places == UNION {{k} \X DOMAIN opens(k) : k \in DOMAIN ifaces[Top.h]}
      children == {k \in places : /\ "child" \in opens(k[1])[k[2]].attrs
                                  /\ k[1] > Top.pos \/ (k[1] = Top.pos /\ k[2] > here)}
  IN  /\ Running("walk") /\ ~Lost
      /\ IF children = {}
         THEN Return(Front(stack), IF ok THEN "success" ELSE "not_found") /\ UNCHANGED ifaces
         ELSE LET k == CHOOSE k \in children : \A l \in children :
                         k[1] < l[1] \/ (k[1] = l[1] /\ k[2] <= l[2])
                  r == opens(k[1])[k[2]]
              IN  ConnectAt(Replace([Top EXCEPT !.pos = k[1], !.g = ifaces[Top.h][k[1]].guid,
                                                !.cur = KeyOf(r), !.ok = ok]),
                            r.controller, TRUE, Top.st = "success")
      /\ UNCHANGED <<made, notifies, unlisted>>

DisconnectController(a) ==
  /\ Client("Disconnect")
  /\ DisconnectAt(stack, a.controller, a.driver, a.child)
  /\ UNCHANGED <<made, notifies, unlisted>>

DisconnectAllNext ==
  LET ok == Top.ok \/ ret = "success"
  IN  /\ Running("disconnectAll")
      /\ IF Top.todo = <<>>
         THEN Return(Front(stack), IF ok THEN "success" ELSE "not_found") /\ UNCHANGED ifaces
         ELSE DisconnectAt(Replace([Top EXCEPT !.todo = Tail(@), !.ok = ok]),
                           Top.h, Head(Top.todo), Top.c)
      /\ UNCHANGED <<made, notifies, unlisted>>

\* The driver is stopped for its children, then for the controller.  When a
\* stop fails the binding is left open.
DisconnectNext ==
  /\ Running("disconnect")
  /\ IF ret # "success"
     THEN Return(Front(stack), "device_error") /\ UNCHANGED ifaces
     ELSE IF Top.pos = 1
     THEN /\ Enter(Append(Replace([Top EXCEPT !.pos = 2, !.ok = TRUE]),
                          Call("stop", Top.h, Top.d)))
          /\ UNCHANGED ifaces
     ELSE CloseAt(Front(stack), Top.d, Binding, Top.d, NULL) /\ ret' = "success"
  /\ UNCHANGED <<made, notifies, unlisted>>

\* A program's function returns.  A driver's stop function either closes what
\* the driver holds and succeeds, or fails and leaves everything as it was.
Holds(d, h) ==
  \E k \in DOMAIN ifaces[h] : \E r \in ToSet(ifaces[h][k].opens) :
    r.agent = d /\ r.controller = h /\ "driver" \in r.attrs

StopMayReturn(status) ==
  LET caller == stack[Len(stack) - 1]
  IN  IF status = "success"
      THEN caller.pos = 2 => ~Holds(Top.d, Top.h)
      ELSE ~Top.ok /\ (caller.ok => MayGiveUp)

FunctionReturns ==
  /\ Running("call")
  /\ \E status \in {"success", "unsupported"} :
       /\ Top.fn = "stop" => StopMayReturn(status)
       /\ Return(Front(stack), status)
  /\ UNCHANGED <<made, ifaces, notifies, unlisted>>

\* An image that was loaded runs.
StartImage ==
  /\ Client("StartImage")
  /\ Enter(Append(stack, Call("image", NULL, NULL)))
  /\ UNCHANGED <<made, ifaces, notifies, unlisted>>

\* The handles that Installs of s in progress have yet to add to registration k.
Underway(s, k) ==
  {f.h : f \in {f \in ToSet(s) : f.op = "install" /\ f.g = notifies[k].guid /\ f.pos <= k}}

IsImage(f) == f.op = "call" /\ f.fn = "image"

\* The innermost program exits, from its own code or from a function called above
\* it, a driver's or a notification's: longjmp leaves the frames below that
\* program's, and main goes on with its next file after the outermost one.  No
\* service waits for the status it exits with, here success.  The interfaces and
\* their records stay as the services it cuts had left them.
Exit ==
  /\ Client("Exit")
  /\ \E n \in 0 .. Len(stack) :
       /\ n = 0 \/ (n < Len(stack) /\ IsImage(stack[n + 1]))
       /\ \A k \in n + 2 .. Len(stack) : ~IsImage(stack[k])
       /\ Return(SubSeq(stack, 1, n), "success")
  /\ unlisted' = [k \in DOMAIN unlisted |->
                    unlisted[k] \cup (Underway(stack, k) \ Underway(stack', k))]
  /\ UNCHANGED <<made, ifaces, notifies>>

-----------------------------------------------------------------------------
Init ==
  /\ made = Len(Given)
  /\ ifaces = [h \in Handle |-> IF h > made THEN <<>> ELSE
       [k \in DOMAIN Given[h] |-> NewEntry(Given[h][k].guid, Given[h][k].intf)]]
  /\ notifies = <<>> /\ unlisted = <<>>
  /\ stack = <<>> /\ ret = "none"

\* The steps of the services in progress.
Serve == \/ Notify \/ InstallNext \/ RollBack \/ ReinstallNext \/ UninstallEnds
         \/ DisconnectOwners \/ ConnectNext \/ BindNext \/ WalkNext
         \/ DisconnectAllNext \/ DisconnectNext

\* The services a program calls.
CallService ==
  \/ \E a \in Installs : InstallProtocolInterface(a)
  \/ \E a \in InstallLists : InstallMultiple(a)
  \/ \E a \in Installs, i \in Interface :
       \/ UninstallProtocolInterface(a.handle, a.guid, i)
       \/ ReinstallProtocolInterface(a.handle, a.guid, i, a.intf)
  \/ \E g \in Registers : RegisterProtocolNotify(g)
  \/ \E o \in Opens : OpenProtocol(o) \/ CloseProtocol(o.handle, o.guid, o.agent, o.controller)
  \/ \E a \in Connects : ConnectController(a)
  \/ \E a \in Disconnects : DisconnectController(a)
  \/ StartImage
  \/ Exit

\* What the program does after a list was freed under it is undefined.
Undefined == ~Intact /\ UNCHANGED vars

Next == Serve \/ CallService \/ FunctionReturns \/ Undefined

Spec == Init /\ [][Next]_vars

\* The services go on and so do the images that functions start; a stop function
\* closes what its driver holds in the end, and the functions of programs return.
StopCloses ==
  /\ stack # <<>> /\ Runs("stop")
  /\ \E o \in Opens : /\ "driver" \in o.attrs /\ o.agent = Top.d /\ o.controller = Top.h
                       /\ CloseProtocol(o.handle, o.guid, o.agent, o.controller)

EntryReturns == Runs("image") /\ FunctionReturns

FairSpec == Spec /\ WF_vars(Serve \/ EntryReturns) /\ SF_vars(StopCloses)
                 /\ SF_vars(~Runs("image") /\ FunctionReturns)

-----------------------------------------------------------------------------
(* Properties *)

\* The type of every variable, a part of OneOwner.
TypeOK ==
  /\ made \in 0 .. MaxHandles
  /\ ifaces \in [Handle -> Seq([guid : Guid, intf : Interface, freed : BOOLEAN,
       opens : Seq([agent : Handle, controller : Handle \cup {NULL}, attrs : Valued,
                    count : Nat \ {0}])])]
  /\ \A h \in Handle : h > made => ifaces[h] = <<>>
  /\ notifies \in Seq([guid : Guid, handles : Seq(Handle)])
  /\ stack \in Seq(Frame)
  /\ ret \in Status
  /\ unlisted \in Seq(SUBSET Handle) /\ Len(unlisted) = Len(notifies)

\* The checks and the records of OpenProtocol, taken before and after the
\* drivers are disconnected, agree: an interface has one owner at most, be it
\* a driver or an exclusive opener (protocol.c:302-327).  A handle has one
\* interface of a protocol and an opener one record of each kind, whatever
\* services ran in the middle of others (protocol.c:91,328).
OneOwner ==
  /\ TypeOK
  /\ \A h \in 1 .. made :
       /\ \A k, l \in DOMAIN ifaces[h] : ProtocolsPerHandle(h)[k] = ProtocolsPerHandle(h)[l] => k = l
       /\ \A k \in DOMAIN ifaces[h] :
            LET open == OpenInformation(h, k)
                Owns(m) == open[m].attrs \cap {"driver", "exclusive"} # {}
            IN  \A m, n \in DOMAIN open :
                  KeyOf(open[m]) = KeyOf(open[n]) \/ (Owns(m) /\ Owns(n)) => m = n

\* A registration lists once each handle that was given the protocol since it
\* was made, but for those an Install in progress has yet to reach, even when
\* programs install more from inside a notification (protocol.c:107-118); and
\* for those whose Install an Exit cut on the way, which it never lists.
RegistrationsComplete ==
  \A k \in DOMAIN notifies :
    LET n == notifies[k]
    IN  /\ ToSet(LocateHandle(n.guid)) =
             unlisted[k] \cup ToSet(n.handles) \cup Underway(stack, k)
        /\ IsInjective(n.handles)
        /\ n.handles # <<>> => LocateRegistered(n) # NoInterface

\* A loop over an open list never goes on from a record that was freed while
\* a program's function ran in its middle (protocol.c:324, controller.c:215-222).
NoLostWalk == stack # <<>> => ~Lost

\* Every call ends when the functions of programs do: the loops that start
\* over after each disconnected driver, and the recursion, come to an end
\* (protocol.c:318-325, controller.c:213-223).
ServicesReturn == []<>(stack = <<>> \/ ~Intact)

\* README.md:39-61 names the services that are not or partly implemented; the
\* others, UninstallProtocolInterface among them, do what their name says: an
\* interface that was uninstalled is gone.
UninstallRemoves ==
  [][ /\ stack # <<>> /\ Top.op = "uninstall" /\ ret' = "success"
      /\ Len(stack') < Len(stack)
      => ~\E k \in DOMAIN ifaces'[Top.h] : ifaces'[Top.h][k].guid = Top.g ]_vars
=============================================================================
