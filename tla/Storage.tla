------------------------------- MODULE Storage -------------------------------
(***************************************************************************)
(* Variables (tables/variable.c) and configuration tables                  *)
(* (tables/configuration.c), kept in blocks of the pool of Memory that the *)
(* program allocates from too, and exhausts and damages.                   *)
(***************************************************************************)
EXTENDS Memory, Sequences

CONSTANTS
  Keys,    \* name and GUID of a variable
  Values,  \* contents of variables
  Guids,   \* names of configuration tables
  Tables,  \* configuration tables
  NONE     \* no contents, no table

ASSUME NoneAssumption == NONE \notin Values \cup Tables

VARIABLES
  vars,      \* ctx->vars: key, value and blocks of every variable
  said,      \* what SetVariable answered last
  cfg,       \* the entries of the array st->cfg_table, which has cfg_table_size
  cfgBlock,  \* the block it is in
  entries,   \* st->entries
  removed,   \* a table has been removed
  installed  \* by GUID: the table given last, NONE if it was removed

variableVars == <<vars, said>>
tableVars == <<cfg, cfgBlock, entries, removed, installed>>
storageVars == <<memoryVars, variableVars, tableVars>>

StorageInit ==
  /\ MemoryInit
  /\ vars = <<>>
  /\ said = "none"
  /\ cfg = <<>>
  /\ cfgBlock = NIL
  /\ entries = 0
  /\ removed = FALSE
  /\ installed = [g \in Guids |-> NONE]

-----------------------------------------------------------------------------
(* Variables *)

\* var_cmp: the item that list_search_one finds, 0 if there is none
Found(k) ==
  LET at == {i \in DOMAIN vars : vars[i].key = k}
  IN IF at = {} THEN 0 ELSE Min(at)

\* What GetVariable gives to a caller whose buffer is large enough.
GetVariable(k) == IF Found(k) = 0 THEN NONE ELSE vars[Found(k)].value

BlocksOf(v) == {v.data, v.name, v.item, v.node}

Taken(p, b) == IF b = NIL THEN p ELSE Allocate(p, b, 1, FALSE)

\* The outcome of a call: the pool p, what it ran into, the list and the answer.
Outcome(s, isShort, list, answer) ==
  /\ pool' = s.pool
  /\ aborted' = ~s.ok
  /\ short' = (short \/ isShort)
  /\ vars' = list
  /\ said' = answer
  /\ UNCHANGED <<others, held, hurt, smashed, tableVars>>

\* What is freed of a variable, in this order
Freed(v) ==
  LET s == Release(Release([pool |-> pool, ok |-> TRUE], v.data), v.name)
  IN Release(Release(s, v.item), v.node)

\* Faulty variant of DeleteVariable: the item that is taken out is always the first one.
DeleteFirst(k) ==
  LET i == Found(k)
  IN IF i = 0
     THEN Outcome([pool |-> pool, ok |-> TRUE], FALSE, vars, "not_found")
     ELSE Outcome(Freed(vars[i]), FALSE, Tail(vars), "success")

\* SetVariable without contents deletes.
DeleteVariable(k) ==
  LET i == Found(k)
  IN IF i = 0
     THEN Outcome([pool |-> pool, ok |-> TRUE], FALSE, vars, "not_found")
     ELSE Outcome(Freed(vars[i]), FALSE, RemoveAt(vars, i), "success")

\* Faulty variant of ReplaceVariable: the old contents are not freed.
ReplaceLeaking(k, x) ==
  LET i == Found(k)
      d == Placed(pool)
  IN /\ i # 0
     /\ IF d = NIL
        THEN Outcome([pool |-> pool, ok |-> TRUE], TRUE, vars, "out_of_resources")
        ELSE Outcome([pool |-> Taken(pool, d), ok |-> TRUE], FALSE,
                     [vars EXCEPT ![i].data = d, ![i].value = x], "success")

\* The new contents are copied before those of before are freed.
ReplaceVariable(k, x) ==
  LET i == Found(k)
      d == Placed(pool)
      freed == Release([pool |-> Taken(pool, d), ok |-> TRUE], vars[i].data)
  IN /\ i # 0
     /\ IF d = NIL
        THEN Outcome([pool |-> pool, ok |-> TRUE], TRUE, vars, "out_of_resources")
        ELSE Outcome(freed, FALSE, [vars EXCEPT ![i].data = d, ![i].value = x], "success")

\* A new variable takes four blocks, one after the other.  The result of
\* list_obj_add_new_dup, which takes the last two, is not looked at: without room
\* for the item the variable is lost, without room for the node free() is called
\* with a block of the pool, which ends the program.
CreateVariable(k, x) ==
  LET data == Placed(pool)
      p1 == Taken(pool, data)
      name == Placed(p1)
      p2 == Taken(p1, name)
      item == Placed(p2)
      p3 == Taken(p2, item)
      node == Placed(p3)
      v == [key |-> k, value |-> x, data |-> data, name |-> name, item |-> item, node |-> node]
  IN /\ Found(k) = 0
     /\ \/ /\ data = NIL
           /\ Outcome([pool |-> pool, ok |-> TRUE], TRUE, vars, "out_of_resources")
        \/ /\ data # NIL /\ name = NIL
           /\ Outcome(Release([pool |-> p1, ok |-> TRUE], data), TRUE, vars, "out_of_resources")
        \/ /\ name # NIL /\ item = NIL
           /\ Outcome([pool |-> p2, ok |-> TRUE], TRUE, vars, "success")
        \/ /\ item # NIL /\ node = NIL
           /\ Outcome([pool |-> p3, ok |-> FALSE], TRUE, vars, said)
        \/ /\ node # NIL
           /\ Outcome([pool |-> Taken(p3, node), ok |-> TRUE], FALSE, Append(vars, v), "success")

SetVariable(k, x) ==
  IF x = NONE THEN DeleteVariable(k) ELSE ReplaceVariable(k, x) \/ CreateVariable(k, x)

-----------------------------------------------------------------------------
(* Configuration tables *)

\* The entry of a GUID among those that count, 0 if it has none
EntryOf(g) ==
  LET at == {i \in 1..entries : cfg[i].guid = g}
  IN IF at = {} THEN 0 ELSE Min(at)

Entry(g, t) == [guid |-> g, table |-> t]

\* Where mem_allocate or mem_reallocate puts the array
Room == IF cfg = <<>> THEN {Placed(pool)}
        ELSE IF Sound(pool, cfgBlock) THEN ReallocatedTo(pool, cfgBlock)
        ELSE {NIL}

\* The array is grown by one entry only if it is full, and only then counted up:
\* into an array that had an entry removed the new one is written, not counted.
InsertTable(g, t) ==
  /\ EntryOf(g) = 0
  /\ installed' = [installed EXCEPT ![g] = t]
  /\ IF entries < Len(cfg)
     THEN /\ cfg' = [cfg EXCEPT ![entries + 1] = Entry(g, t)]
          /\ UNCHANGED <<pool, cfgBlock, entries>>
     ELSE /\ cfg' = Append(cfg, Entry(g, t))
          /\ entries' = entries + 1
          /\ cfgBlock' \in Room \ {NIL}
          /\ pool' = IF cfg = <<>> THEN Allocate(pool, cfgBlock', 1, FALSE)
                     ELSE Reallocated(pool, cfgBlock, cfgBlock', Len(cfg) + 1)
  /\ UNCHANGED <<aborted, short, removed>>

\* Without room the first table is refused, the growth of the array aborts.
CannotInsert(g) ==
  /\ EntryOf(g) = 0 /\ entries = Len(cfg)
  /\ NIL \in Room
  /\ aborted' = (cfg # <<>>)
  /\ short' = (short \/ Placed(pool) = NIL)
  /\ UNCHANGED <<pool, tableVars>>

ReplaceTable(g, t) ==
  /\ EntryOf(g) # 0
  /\ cfg' = [cfg EXCEPT ![EntryOf(g)].table = t]
  /\ installed' = [installed EXCEPT ![g] = t]
  /\ UNCHANGED <<pool, aborted, short, cfgBlock, entries, removed>>

\* Faulty variant of RemoveTable: the entries behind the removed one stay where they are.
RemoveUnmoved(g) ==
  /\ EntryOf(g) # 0
  /\ entries' = entries - 1
  /\ installed' = [installed EXCEPT ![g] = NONE]
  /\ removed' = TRUE
  /\ UNCHANGED <<pool, aborted, short, cfg, cfgBlock>>

RemoveTable(g) ==
  /\ EntryOf(g) # 0
  /\ entries' = entries - 1
  /\ cfg' = [i \in DOMAIN cfg |-> IF i \in EntryOf(g)..(entries - 1) THEN cfg[i + 1] ELSE cfg[i]]
  /\ installed' = [installed EXCEPT ![g] = NONE]
  /\ removed' = TRUE
  /\ UNCHANGED <<pool, aborted, short, cfgBlock>>

InstallConfigurationTable(g, t) ==
  /\ IF t = NONE THEN RemoveTable(g) ELSE InsertTable(g, t) \/ CannotInsert(g) \/ ReplaceTable(g, t)
  /\ UNCHANGED <<others, held, hurt, smashed, variableVars>>

-----------------------------------------------------------------------------

StorageNext ==
  /\ ~aborted
  /\ \/ MemoryNext /\ UNCHANGED <<variableVars, tableVars>>
     \/ \E k \in Keys, x \in Values \cup {NONE} : SetVariable(k, x)
     \/ \E g \in Guids, t \in Tables \cup {NONE} : InstallConfigurationTable(g, t)

StorageSpec == StorageInit /\ [][StorageNext]_storageVars

-----------------------------------------------------------------------------
(* What the program can rely on *)

\* SetVariable and GetVariable are the map of Store, whatever happens to the pool
\* they keep their blocks in.
Variables ==
  INSTANCE Store WITH
    value <- [k \in Keys |-> GetVariable(k)],
    spare <- Cardinality(Free),
    ended <- aborted

VariablesAreStored == Variables!Spec

\* A table that is listed is the one given last for its GUID and is listed once;
\* until one is removed, all that were installed are listed.
TablesKept ==
  /\ \A i \in 1..entries : cfg[i].table = installed[cfg[i].guid]
  /\ \A i, j \in 1..entries : cfg[i].guid = cfg[j].guid => i = j
  /\ ~removed => \A g \in Guids : installed[g] # NONE => EntryOf(g) # 0

\* The type of every variable, a part of OwnedOnce.
TypeOK ==
  /\ pool.live \subseteq Slots /\ pool.feet \subseteq Slots
  /\ pool.first \in pool.live \cup {NIL}
  /\ pool.used \in Nat /\ pool.asked \in Nat
  /\ hurt \subseteq Slots
  /\ {aborted, smashed, short, removed} \subseteq BOOLEAN
  /\ \A i \in DOMAIN vars : vars[i].key \in Keys /\ vars[i].value \in Values
  /\ cfgBlock \in Slots \cup {NIL}
  /\ entries \in 0..Len(cfg)
  /\ installed \in [Guids -> Tables \cup {NONE}]

\* The pool's books agree and every block has one owner at most; when nothing was
\* ever refused for want of room every block has one: what a variable or the array
\* no longer needs is freed.
OwnedOnce ==
  LET blocks == <<others, held, IF cfgBlock = NIL THEN {} ELSE {cfgBlock}>>
                  \o [i \in DOMAIN vars |-> BlocksOf(vars[i])]
  IN /\ TypeOK /\ BlocksAccounted
     /\ \A i, j \in DOMAIN blocks : i # j => blocks[i] \cap blocks[j] = {}
     /\ UNION ToSet(blocks) \subseteq pool.live
     /\ ~short => UNION ToSet(blocks) = pool.live
=============================================================================
