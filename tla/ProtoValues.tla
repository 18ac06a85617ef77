---------------------------- MODULE ProtoValues ----------------------------
(***************************************************************************)
(* What the generated accessors promise their Rust caller, with no heap:   *)
(* the caller owns a set of values: messages, and the std::string and      *)
(* container objects it builds to hand to setters.  A message value is a   *)
(* record of its type, its field values and the set of its present         *)
(* sub-message fields.  The caller reads and writes fields along a path of *)
(* sub-message fields from an owned message (or from a type's default      *)
(* instance, read only); handing a string, container or message to a      *)
(* setter consumes it.                                                     *)
(***************************************************************************)
EXTENDS Naturals, Sequences, FiniteSets

CONSTANTS
  Types,       \* message types
  Schema,      \* Schema[T][f] = [kind |-> ..., sub |-> ...] for each field f of T
  Handles,     \* names of the values the caller owns
  Statics,     \* the default instances, one per type
  StaticType,  \* StaticType[d]: the type whose default instance d is
  Vals,        \* non-default payload values
  Dflt,        \* the default value of a scalar or string field
  MaxLen       \* bound on the elements of a container the caller builds

Kind(T, f) == Schema[T][f].kind
MsgFields(T) == {f \in DOMAIN Schema[T] : Kind(T, f) = "message"}
Contents == UNION {[1..n -> Vals] : n \in 0..MaxLen}

RECURSIVE DefaultVal(_)
(* The value of a freshly constructed message of type T.                   *)
DefaultVal(T) ==
  [type    |-> T,
   fields  |-> [f \in DOMAIN Schema[T] |->
                  CASE Kind(T, f) \in {"scalar", "string"} -> Dflt
                    [] Kind(T, f) \in {"repeated", "map"}  -> <<>>
                    [] OTHER -> DefaultVal(Schema[T][f].sub)],
   present |-> {}]

(* A string or container the caller built, not yet handed to a setter.    *)
LooseVals ==
  [kind : {"string"}, v : {Dflt} \cup Vals] \cup [kind : {"repeated", "map"}, v : Contents]

VARIABLES
  owned,   \* the handles the caller owns
  value,   \* value[h]: the value of an owned handle
  ret      \* what the latest getter returned

avars == <<owned, value, ret>>

(* The sub-message at path p below message value v.                        *)
RECURSIVE ValAt(_, _)
ValAt(v, p) == IF p = <<>> THEN v ELSE ValAt(v.fields[Head(p)], Tail(p))

RECURSIVE UpdAt(_, _, _)
(* v with the message at path p replaced by new.                          *)
UpdAt(v, p, new) ==
  IF p = <<>> THEN new
  ELSE [v EXCEPT !.fields[Head(p)] = UpdAt(@, Tail(p), new)]

RECURSIVE Paths(_, _)
(* Paths of at most n sub-message fields from a message value v.           *)
Paths(v, n) ==
  {<<>>} \cup
  IF n = 0 THEN {}
  ELSE UNION {{<<f>> \o q : q \in Paths(v.fields[f], n - 1)} : f \in MsgFields(v.type)}

RECURSIVE AllPresent(_, _)
AllPresent(v, p) ==
  p = <<>> \/ (Head(p) \in v.present /\ AllPresent(v.fields[Head(p)], Tail(p)))

Depth == Cardinality(Types)

IsMessage(h) == "type" \in DOMAIN value[h]

(* Handle h may be handed to the setter of field f of a message of type T, *)
(* and the field then takes the value Handed(h).                          *)
Fits(T, f, h) ==
  IF Kind(T, f) = "message"
  THEN IsMessage(h) /\ value[h].type = Schema[T][f].sub
  ELSE ~IsMessage(h) /\ value[h].kind = Kind(T, f)

Handed(h) == IF IsMessage(h) THEN value[h] ELSE value[h].v

ValueOf(r) == IF r \in Statics THEN DefaultVal(StaticType[r]) ELSE value[r]

-----------------------------------------------------------------------------
Init ==
  /\ owned = {}
  /\ value = [h \in {} |-> Dflt]
  /\ ret = [val |-> Dflt]

(* The caller constructs a message, or builds a string or container.      *)
Create(h) ==
  /\ h \notin owned
  /\ owned' = owned \cup {h}
  /\ DOMAIN value' = owned'
  /\ \A g \in owned : value'[g] = value[g]
  /\ IF "type" \in DOMAIN value'[h] THEN value'[h] = DefaultVal(value'[h].type)
                                     ELSE value'[h] \in LooseVals

(* The caller destroys what it owns.                                       *)
Destroy(h) ==
  /\ h \in owned
  /\ owned' = owned \ {h}
  /\ value' = [g \in owned' |-> value[g]]

(* Field f of the message at a present path p of r takes value x, which    *)
(* is the value of a consumed handle or a scalar; a sub-message becomes   *)
(* present.                                                                *)
Write(r, p, f, x, consumed) ==
  LET m == ValAt(value[r], p)
      m2 == [m EXCEPT !.fields[f] = x,
                      !.present = IF Kind(m.type, f) = "message" THEN @ \cup {f} ELSE @]
  IN
  /\ owned' = owned \ consumed
  /\ value' = [g \in owned' |-> IF g = r THEN UpdAt(value[r], p, m2) ELSE value[g]]

(* A sub-message field becomes present, keeping its value.                 *)
MarkPresent(r, p, f) ==
  LET m == ValAt(value[r], p) IN
  /\ owned' = owned
  /\ value' = [value EXCEPT ![r] = UpdAt(@, p, [m EXCEPT !.present = @ \cup {f}])]

(* Field f goes back to its default and is no longer present.              *)
ClearField(r, p, f) ==
  LET m == ValAt(value[r], p) IN
  /\ owned' = owned
  /\ value' = [value EXCEPT ![r] = UpdAt(@, p, [m EXCEPT !.fields[f] = DefaultVal(Schema[m.type][f].sub),
                                                          !.present = @ \ {f}])]

(* What a getter of field f of message value m returns, tagged by sort:   *)
(* a scalar or string value, a container's elements, a sub-message.       *)
Returned(m, f) ==
  CASE Kind(m.type, f) \in {"scalar", "string"} -> [val |-> m.fields[f]]
    [] Kind(m.type, f) \in {"repeated", "map"}  -> [seq |-> m.fields[f]]
    [] OTHER                                    -> [msg |-> m.fields[f]]

(* A getter returns the message at path p of r, one of its fields, or     *)
(* whether one of its sub-message fields is present.                      *)
Read(r, p) ==
  LET m == ValAt(ValueOf(r), p) IN
  \/ ret' = [msg |-> m]
  \/ \E f \in DOMAIN m.fields :
    \/ ret' = Returned(m, f)
    \/ Kind(m.type, f) = "message" /\ ret' = [has |-> f \in m.present]

(* Steps that change what the caller owns leave ret alone; getters change *)
(* nothing but ret.                                                        *)
Next ==
  \/ /\ UNCHANGED ret
     /\ \/ \E h \in Handles : Create(h) \/ Destroy(h)
        \/ \E r \in owned : IsMessage(r) /\
             \E p \in Paths(value[r], Depth) : AllPresent(value[r], p) /\
               LET T == ValAt(value[r], p).type IN
               \E f \in DOMAIN Schema[T] :
                 \/ /\ Kind(T, f) = "scalar"
                    /\ \E x \in {Dflt} \cup Vals : Write(r, p, f, x, {})
                 \/ \E h \in owned \ {r} : Fits(T, f, h) /\ Write(r, p, f, Handed(h), {h})
                 \/ Kind(T, f) = "message" /\ MarkPresent(r, p, f)
                 \/ Kind(T, f) = "message" /\ ClearField(r, p, f)
  \/ /\ UNCHANGED <<owned, value>>
     /\ \E r \in {g \in owned : IsMessage(g)} \cup Statics :
          \E p \in Paths(ValueOf(r), Depth) : Read(r, p)

Spec == Init /\ [][Next]_avars

=============================================================================
