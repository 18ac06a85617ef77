--------------------------- MODULE MC_ProtoThunks ---------------------------
(* Instances of the accessor model for TLC.                                *)
EXTENDS ProtoThunks, ProtoSchema, TLC

(* CapabilityNegotiation and its sub-message type ProtocolVersion.  Every  *)
(* field of a kind runs the same accessor code, so the run keeps both      *)
(* sub-message fields (two owners for one sub-message type) and one field  *)
(* of every other kind.                                                    *)
MC_Types == {"CapabilityNegotiation", "ProtocolVersion"}
MC_Keep ==
  ("CapabilityNegotiation" :> {"min_version", "max_version", "supported_features"})
  @@ ("ProtocolVersion" :> {"major", "build_info"})
MC_Schema == [T \in MC_Types |-> [f \in MC_Keep[T] |-> NearclipSchema[T][f]]]

(* Every message type of the four files with all its fields.              *)
MC_AllTypes == DOMAIN NearclipSchema
MC_AllSchema == NearclipSchema

(* The address of each type's static default instance.                   *)
MC_DefaultObj == [T \in MC_AllTypes |-> "default " \o T]

(* No action reads ret, and no property depends on its value before a    *)
(* step, so states that differ only in ret have the same behaviours.      *)
MC_View == <<life, otype, data, has, own, mut, cref, fault>>

(* Heap addresses are interchangeable.                                     *)
MC_Symmetry == Permutations(Objs)
=============================================================================
