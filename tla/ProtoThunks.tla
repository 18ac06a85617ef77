---------------------------- MODULE ProtoThunks -----------------------------
(***************************************************************************)
(* The generated accessor thunks of the .pb.thunks.cc files, as           *)
(* operations on the C++ heap they expose to the Rust caller.  Every      *)
(* block of the four files has the same code for each field of a given    *)
(* kind (see ProtoSchema), so one action per accessor kind, taking the   *)
(* message and the field, models all of them; the schema says which      *)
(* fields a type has.                                                      *)
(*                                                                         *)
(* The heap is a pool of addresses Objs, each unused, live or freed (an    *)
(* address is never reused, so a freed one stays recognisable), plus one   *)
(* static default instance per type.  A message object holds, per field,   *)
(* a value (scalar, string), an element sequence (repeated, map) or a      *)
(* pointer to its sub-message (or Null), and its set of has-bits.          *)
(*                                                                         *)
(* The caller follows the Rust runtime's contract: it calls a thunk only   *)
(* through a pointer it holds, owned (own), borrowed mutably (mut) or     *)
(* read-only (cref), or through a static default instance; it mutates     *)
(* only through own or mut; it hands to a setter only objects it owns and *)
(* drops them then; and a mutating call on a message ends every borrow    *)
(* derived from it (the borrows of objects below it).  The std::string   *)
(* and container objects it hands to setters, and the deletion of a      *)
(* message it owns, come from the Rust runtime and are the environment    *)
(* steps EnvBuild and EnvDrop.                                             *)
(***************************************************************************)
EXTENDS Naturals, Sequences, FiniteSets

CONSTANTS
  Types,       \* the message types of the model
  Schema,      \* Schema[T][f] = [kind, sub] for each field f of type T
  Objs,        \* heap addresses; their number bounds the allocations
  DefaultObj,  \* DefaultObj[T]: address of T's static default instance
  Vals,        \* non-default payload values
  Dflt,        \* default value of a scalar or string field
  Null,        \* nullptr
  MaxLen       \* bound on the elements of a container the caller builds

Statics == {DefaultObj[T] : T \in Types}
Heap == Objs \cup Statics
ASSUME Null \notin Heap /\ Objs \cap Statics = {}

Kind(T, f) == Schema[T][f].kind
MsgFields(T) == {f \in DOMAIN Schema[T] : Kind(T, f) = "message"}
FieldNames == UNION {DOMAIN Schema[T] : T \in Types}
Contents == UNION {[1..n -> Vals] : n \in 0..MaxLen}

(* The field values of a newly constructed message: `new T()`.            *)
Fresh(T) ==
  [f \in DOMAIN Schema[T] |->
     CASE Kind(T, f) \in {"scalar", "string"} -> Dflt
       [] Kind(T, f) \in {"repeated", "map"}  -> <<>>
       [] OTHER                               -> Null]

VARIABLES
  life,    \* life[o]: "unused", "live" or "freed"
  otype,   \* otype[o]: the message type, "string", "repeated", "map" or "none"
  data,    \* data[o]: field values of a message; the content of a string/container
  has,     \* has[o]: the has-bits of a message's sub-message fields
  own,     \* objects the caller owns
  mut,     \* objects the caller holds a mutable borrow of
  cref,    \* objects the caller holds a read-only borrow of
  fault,   \* "double_free", "static_write": faults a thunk committed
  ret      \* what the latest getter returned: [val], [seq], [msg] or [has]

vars == <<life, otype, data, has, own, mut, cref, fault, ret>>

IsMessageObj(o) == otype[o] \in Types
Children(o) ==
  IF IsMessageObj(o) THEN {data[o][f] : f \in MsgFields(otype[o])} \ {Null} ELSE {}

RECURSIVE Reach(_, _)
Reach(o, n) ==
  IF n = 0 THEN {} ELSE Children(o) \cup UNION {Reach(c, n - 1) : c \in Children(o)}

(* The objects below o: its sub-messages, theirs, and so on.              *)
Below(o) == Reach(o, Cardinality(Heap))
Tree(o) == {o} \cup Below(o)

Live(o) == IF o \in Objs THEN life[o] = "live" ELSE o \in Statics
Held == own \cup mut \cup cref
Readable == Held \cup Statics

RECURSIVE Val(_)
(* The value of a message object, as ProtoValues describes it.            *)
Val(o) ==
  LET T == otype[o] IN
  [type    |-> T,
   fields  |-> [f \in DOMAIN Schema[T] |->
                  IF Kind(T, f) # "message" THEN data[o][f]
                  ELSE Val(IF data[o][f] = Null THEN DefaultObj[Schema[T][f].sub]
                           ELSE data[o][f])],
   present |-> has[o]]

(* `delete o` on a message runs its destructor, which deletes its         *)
(* sub-messages.  Deleting an object already freed is a double free.      *)
Delete(S) ==
  /\ life' = [x \in Objs |-> IF x \in S THEN "freed" ELSE life[x]]
  /\ fault' = fault \cup (IF \E x \in S : x \in Statics \/ life[x] = "freed"
                          THEN {"double_free"} ELSE {})

(* A mutating call on p: the borrows derived from p end, and a write to a *)
(* static default instance is recorded.                                   *)
EndBorrowsBelow(p) ==
  /\ mut' = mut \ Below(p)
  /\ cref' = cref \ Below(p)

WriteFault(p) == IF p \in Statics THEN {"static_write"} ELSE {}

(* The common guard of a thunk on field f of message p.                   *)
Reader(p, f, kinds) ==
  /\ p \in Readable /\ Live(p) /\ IsMessageObj(p)
  /\ f \in DOMAIN Schema[otype[p]] /\ Kind(otype[p], f) \in kinds

Writer(p, f, kinds) == Reader(p, f, kinds) /\ p \in own \cup mut

(* A std::string, container or sub-message the caller hands to a setter   *)
(* of field f of p: owned by it, live, of the field's kind, not p itself. *)
Handable(p, f, s) ==
  /\ s \in own /\ s # p /\ life[s] = "live"
  /\ otype[s] = IF Kind(otype[p], f) = "message" THEN Schema[otype[p]][f].sub
                ELSE Kind(otype[p], f)

-----------------------------------------------------------------------------
(* _new: `return new T()`; the caller owns the result.                    *)
New(T) ==
  \E o \in Objs :
    /\ life[o] = "unused"
    /\ life' = [life EXCEPT ![o] = "live"]
    /\ otype' = [otype EXCEPT ![o] = T]
    /\ data' = [data EXCEPT ![o] = Fresh(T)]
    /\ own' = own \cup {o}
    /\ UNCHANGED <<has, mut, cref, fault, ret>>

(* _default_instance: `&T::default_instance()`, a static object the      *)
(* caller may read at any time.                                           *)
DefaultInstance(T) ==
  /\ ret' = [msg |-> Val(DefaultObj[T])]
  /\ UNCHANGED <<life, otype, data, has, own, mut, cref, fault>>

(* Scalar get `return msg->x()` and string get `PtrAndLen{val.data(),     *)
(* val.size()}` over `msg->x()`.                                          *)
ScalarGet(p, f) ==
  /\ Reader(p, f, {"scalar", "string"})
  /\ ret' = [val |-> data[p][f]]
  /\ UNCHANGED <<life, otype, data, has, own, mut, cref, fault>>

(* Scalar set `msg->set_x(val)`.                                          *)
ScalarSet(p, f, x) ==
  /\ Writer(p, f, {"scalar"})
  /\ data' = [data EXCEPT ![p][f] = x]
  /\ fault' = fault \cup WriteFault(p)
  /\ EndBorrowsBelow(p)
  /\ UNCHANGED <<life, otype, has, own, ret>>

\* Mutant: the setter copies the string and never deletes it.
StringSet_noDelete(p, f, s) ==
  /\ Writer(p, f, {"string"})
  /\ Handable(p, f, s)
  /\ data' = [data EXCEPT ![p][f] = data[s]]
  /\ own' = own \ {s}
  /\ EndBorrowsBelow(p)
  /\ UNCHANGED <<life, otype, has, fault, ret>>

(* String set: `msg->set_x` with the moved content of the std::string s,  *)
(* then `delete s`: the field takes the content, the emptied string goes. *)
StringSet(p, f, s) ==
  /\ Writer(p, f, {"string"})
  /\ Handable(p, f, s)
  /\ data' = [data EXCEPT ![p][f] = data[s]]
  /\ Delete({s})
  /\ own' = own \ {s}
  /\ EndBorrowsBelow(p)
  /\ UNCHANGED <<otype, has, ret>>

\* Mutant: presence tested as a non-null pointer instead of the has-bit.
MsgHas_nonNull(p, f) ==
  /\ Reader(p, f, {"message"})
  /\ ret' = [has |-> data[p][f] # Null]
  /\ UNCHANGED <<life, otype, data, has, own, mut, cref, fault>>

(* Sub-message has: `return msg->has_x()`, the has-bit.                   *)
MsgHas(p, f) ==
  /\ Reader(p, f, {"message"})
  /\ ret' = [has |-> f \in has[p]]
  /\ UNCHANGED <<life, otype, data, has, own, mut, cref, fault>>

(* Sub-message clear: `msg->clear_x()`.  What it does to an allocated     *)
(* sub-message depends on the protobuf release the file is built against: *)
(* releases with has-bits on message fields Clear() it in place and keep  *)
(* it, earlier ones delete it and null the pointer.  Both are possible.   *)
MsgClearInPlace(p, f) ==
  LET c == data[p][f]
      T == IF c = Null THEN {} ELSE Tree(c)
  IN
  /\ data' = [x \in Heap |->
                IF x \in T THEN [g \in DOMAIN data[x] |->
                                   IF Kind(otype[x], g) = "message" THEN data[x][g]
                                   ELSE Fresh(otype[x])[g]]
                ELSE data[x]]
  /\ has' = [x \in Heap |-> IF x = p THEN has[p] \ {f}
                           ELSE IF x \in T THEN {} ELSE has[x]]
  /\ UNCHANGED <<life, fault>>

\* Mutant: the sub-message is deleted and the pointer kept.
MsgClearDelete_noNull(p, f) ==
  LET c == data[p][f] IN
  /\ data' = data
  /\ has' = [has EXCEPT ![p] = @ \ {f}]
  /\ IF c = Null THEN UNCHANGED <<life, fault>> ELSE Delete(Tree(c))

MsgClearDelete(p, f) ==
  LET c == data[p][f] IN
  /\ data' = [data EXCEPT ![p][f] = Null]
  /\ has' = [has EXCEPT ![p] = @ \ {f}]
  /\ IF c = Null THEN UNCHANGED <<life, fault>> ELSE Delete(Tree(c))

MsgClear(p, f) ==
  /\ Writer(p, f, {"message"})
  /\ MsgClearInPlace(p, f) \/ MsgClearDelete(p, f)
  /\ EndBorrowsBelow(p)
  /\ UNCHANGED <<otype, own, ret>>

(* Sub-message get: `&msg->x()`, the sub-message or, when none is         *)
(* allocated, the sub-type's default instance; read only.                 *)
MsgGet(p, f) ==
  LET c == IF data[p][f] = Null THEN DefaultObj[Schema[otype[p]][f].sub] ELSE data[p][f] IN
  /\ Reader(p, f, {"message"})
  /\ cref' = cref \cup ({c} \ Statics)
  /\ ret' = [msg |-> Val(c)]
  /\ UNCHANGED <<life, otype, data, has, own, mut, fault>>

(* Sub-message get_mut: `msg->mutable_x()` sets the has-bit, allocates    *)
(* the sub-message when there is none, and returns it.                    *)
MsgGetMut(p, f) ==
  LET T == Schema[otype[p]][f].sub IN
  /\ Writer(p, f, {"message"})
  /\ \E c \in IF data[p][f] = Null THEN {o \in Objs : life[o] = "unused"} ELSE {data[p][f]} :
       /\ life' = [life EXCEPT ![c] = "live"]
       /\ otype' = [otype EXCEPT ![c] = T]
       /\ data' = IF data[p][f] = Null
                  THEN [data EXCEPT ![p][f] = c, ![c] = Fresh(T)] ELSE data
       /\ mut' = (mut \ Below(p)) \cup {c}
  /\ cref' = cref \ Below(p)
  /\ has' = [has EXCEPT ![p] = @ \cup {f}]
  /\ UNCHANGED <<own, fault, ret>>

(* Sub-message set: `msg->set_allocated_x(sub_msg)`: the message deletes  *)
(* the sub-message it had and takes ownership of sub_msg.                 *)
MsgSet(p, f, s) ==
  LET c == data[p][f] IN
  /\ Writer(p, f, {"message"})
  /\ Handable(p, f, s)
  /\ data' = [data EXCEPT ![p][f] = s]
  /\ has' = [has EXCEPT ![p] = @ \cup {f}]
  /\ IF c = Null THEN UNCHANGED <<life, fault>> ELSE Delete(Tree(c))
  /\ own' = own \ {s}
  /\ mut' = mut \ (Below(p) \cup Tree(s))
  /\ cref' = cref \ (Below(p) \cup Tree(s))
  /\ UNCHANGED <<otype, ret>>

(* Repeated and map get: `&msg->x()`, read only.                          *)
ContainerGet(p, f) ==
  /\ Reader(p, f, {"repeated", "map"})
  /\ ret' = [seq |-> data[p][f]]
  /\ UNCHANGED <<life, otype, data, has, own, mut, cref, fault>>

(* Repeated and map get_mut: `msg->mutable_x()`; the elements are then    *)
(* added by the Rust runtime's container functions, outside these files.  *)
ContainerGetMut(p, f) ==
  /\ Writer(p, f, {"repeated", "map"})
  /\ EndBorrowsBelow(p)
  /\ UNCHANGED <<life, otype, data, has, own, fault, ret>>

\* Mutant: the container is merged into the field (MergeFrom) instead of
\* move-assigned.
MoveSet_merge(p, f, v) ==
  /\ Writer(p, f, {"repeated", "map"})
  /\ Handable(p, f, v)
  /\ data' = [data EXCEPT ![p][f] = @ \o data[v]]
  /\ Delete({v})
  /\ own' = own \ {v}
  /\ EndBorrowsBelow(p)
  /\ UNCHANGED <<otype, has, ret>>

(* Repeated move_set and map set: `*msg->mutable_x()` is move-assigned    *)
(* from the container value, which is then deleted.                      *)
MoveSet(p, f, v) ==
  /\ Writer(p, f, {"repeated", "map"})
  /\ Handable(p, f, v)
  /\ data' = [data EXCEPT ![p][f] = data[v]]
  /\ Delete({v})
  /\ own' = own \ {v}
  /\ EndBorrowsBelow(p)
  /\ UNCHANGED <<otype, has, ret>>

-----------------------------------------------------------------------------
(* Environment: the Rust runtime builds a std::string or container for a  *)
(* setter, and deletes what the caller owns when it is dropped.           *)
EnvBuild(k, x) ==
  \E o \in Objs :
    /\ life[o] = "unused"
    /\ life' = [life EXCEPT ![o] = "live"]
    /\ otype' = [otype EXCEPT ![o] = k]
    /\ data' = [data EXCEPT ![o] = x]
    /\ own' = own \cup {o}
    /\ UNCHANGED <<has, mut, cref, fault, ret>>

EnvDrop(o) ==
  /\ o \in own
  /\ Delete(Tree(o))
  /\ own' = own \ {o}
  /\ mut' = mut \ Tree(o)
  /\ cref' = cref \ Tree(o)
  /\ UNCHANGED <<otype, data, has, ret>>

Init ==
  /\ life = [o \in Objs |-> "unused"]
  /\ otype = [o \in Heap |-> IF o \in Statics THEN CHOOSE T \in Types : DefaultObj[T] = o
                             ELSE "none"]
  /\ data = [o \in Heap |-> IF o \in Statics THEN Fresh(otype[o]) ELSE Dflt]
  /\ has = [o \in Heap |-> {}]
  /\ own = {} /\ mut = {} /\ cref = {}
  /\ fault = {}
  /\ ret = [val |-> Dflt]

Next ==
  \/ \E T \in Types : New(T) \/ DefaultInstance(T)
  \/ \E p \in {q \in Readable : IsMessageObj(q)} : \E f \in DOMAIN Schema[otype[p]] :
       \/ ScalarGet(p, f) \/ MsgHas(p, f) \/ MsgGet(p, f) \/ ContainerGet(p, f)
       \/ MsgClear(p, f) \/ MsgGetMut(p, f) \/ ContainerGetMut(p, f)
       \/ \E x \in {Dflt} \cup Vals : ScalarSet(p, f, x)
       \/ \E s \in own : StringSet(p, f, s) \/ MsgSet(p, f, s) \/ MoveSet(p, f, s)
  \/ \E x \in {Dflt} \cup Vals : EnvBuild("string", x)
  \/ \E k \in {"repeated", "map"}, x \in Contents : EnvBuild(k, x)
  \/ \E o \in own : EnvDrop(o)

Spec == Init /\ [][Next]_vars

-----------------------------------------------------------------------------
(* Refinement: what the caller owns, seen as values.                      *)
StaticTypeOf == [d \in Statics |-> CHOOSE T \in Types : DefaultObj[T] = d]

OwnedValue ==
  [o \in own |-> IF IsMessageObj(o) THEN Val(o) ELSE [kind |-> otype[o], v |-> data[o]]]

PV == INSTANCE ProtoValues
        WITH Handles <- Objs, StaticType <- StaticTypeOf,
             owned <- own, value <- OwnedValue

-----------------------------------------------------------------------------
(* Properties                                                              *)

LiveMessages == {o \in Objs : life[o] = "live" /\ IsMessageObj(o)}

(* The message fields that hold a pointer to o.                           *)
Owners(o) ==
  {pf \in LiveMessages \X FieldNames :
     pf[2] \in MsgFields(otype[pf[1]]) /\ data[pf[1]][pf[2]] = o}

TypeOK ==
  /\ life \in [Objs -> {"unused", "live", "freed"}]
  /\ otype \in [Heap -> Types \cup {"string", "repeated", "map", "none"}]
  /\ has \in [Heap -> SUBSET FieldNames]
  /\ own \subseteq Objs /\ mut \subseteq Heap /\ cref \subseteq Objs
  /\ fault \subseteq {"double_free", "static_write"}
  /\ \A o \in LiveMessages \cup Statics :
       \A f \in DOMAIN Schema[otype[o]] :
         data[o][f] \in CASE Kind(otype[o], f) \in {"scalar", "string"} -> {Dflt} \cup Vals
                          [] Kind(otype[o], f) \in {"repeated", "map"}  -> Contents
                          [] OTHER -> Objs \cup {Null}

(* However the caller interleaves the accessors (within its contract), no *)
(* thunk deletes an object twice or writes a static default instance, and *)
(* no pointer the caller still holds (an owned object, or one a get or    *)
(* get_mut returned) points to freed memory: set_allocated_, clear_ and   *)
(* the deleting setters free only what no live borrow reaches.           *)
HeapSafe ==
  /\ fault = {}
  /\ \A p \in Held : Live(p)

(* Ownership handed across the boundary is never lost nor shared: every   *)
(* live heap object is owned by exactly one party, the caller or one      *)
(* sub-message field of one live message.  A setter that kept the heap    *)
(* string or container it was handed would leak it; a set_allocated_     *)
(* that kept the old sub-message would leak it.                           *)
OwnedExactlyOnce ==
  \A o \in Objs :
    life[o] = "live" => Cardinality(Owners(o)) + (IF o \in own THEN 1 ELSE 0) = 1

(* Every sequence of accessor calls is one the value semantics allows:    *)
(* getters return the current value of a field (a default for an unset    *)
(* sub-message), has reports exactly the sub-messages set through set,    *)
(* get_mut and not cleared since, and each setter replaces the field with *)
(* what it was handed.                                                     *)
ValueSemantics == PV!Spec
=============================================================================
