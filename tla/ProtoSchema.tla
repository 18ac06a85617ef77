---------------------------- MODULE ProtoSchema -----------------------------
(***************************************************************************)
(* The message types of the generated Rust accessor thunks                *)
(* (src/shared/protocol/generated/rust/*.pb.thunks.cc).  Each block of a  *)
(* file defines, for one message, the accessors of each of its fields, and *)
(* which accessors it defines is fixed by the field's kind:               *)
(*   Scalar      get returns the value, set stores it;                     *)
(*   Str         get returns a PtrAndLen view, set moves from a heap       *)
(*               std::string and deletes it;                               *)
(*   SubMessage  has, clear, get (default instance when unset), get_mut    *)
(*               (mutable_), set (set_allocated_, taking ownership);       *)
(*   Repeated    get, get_mut, move_set (move-assign, delete the source);  *)
(*   MapField    get, get_mut, set (move-assign, delete the source).       *)
(* The enums of the files (ErrorCode, DeviceCapability, DeviceType,       *)
(* PairingStatus, DataType, SyncOperation) have empty blocks.              *)
(***************************************************************************)
EXTENDS TLC

Scalar   == [kind |-> "scalar",   sub |-> "none"]
Str      == [kind |-> "string",   sub |-> "none"]
Repeated == [kind |-> "repeated", sub |-> "none"]
MapField == [kind |-> "map",      sub |-> "none"]
SubMessage(T) == [kind |-> "message", sub |-> T]

\* common.pb.thunks.cc
ErrorMessageFields ==
  [code |-> Scalar,
   message |-> Str,
   details |-> Str,
   timestamp |-> Scalar]

HeartbeatFields ==
  [device_id |-> Str,
   timestamp |-> Scalar,
   sequence_number |-> Scalar]

HeartbeatAckFields ==
  [device_id |-> Str,
   received_timestamp |-> Scalar,
   sequence_number |-> Scalar]

ProtocolVersionFields ==
  [major |-> Scalar,
   minor |-> Scalar,
   patch |-> Scalar,
   build_info |-> Str]

CapabilityNegotiationFields ==
  [min_version |-> SubMessage("ProtocolVersion"),
   max_version |-> SubMessage("ProtocolVersion"),
   supported_features |-> Repeated,
   required_features |-> Repeated]

CapabilityNegotiationResponseFields ==
  [selected_version |-> SubMessage("ProtocolVersion"),
   supported_features |-> Repeated,
   unsupported_features |-> Repeated,
   compatibility |-> Scalar]

\* discovery.pb.thunks.cc
DeviceBroadcastFields ==
  [device_id |-> Str,
   device_name |-> Str,
   device_type |-> Scalar,
   capabilities |-> Repeated,
   version |-> Str,
   timestamp |-> Scalar,
   public_key |-> Str,
   metadata |-> MapField]

ScanRequestFields ==
  [timeout_seconds |-> Scalar,
   filter_types |-> Repeated,
   required_capabilities |-> Repeated]

ScanResponseFields ==
  [devices |-> Repeated,
   scan_duration_ms |-> Scalar]

DeviceQueryFields ==
  [device_id |-> Str,
   capabilities |-> Repeated]

DeviceQueryResponseFields ==
  [device |-> SubMessage("DeviceBroadcast"),
   is_online |-> Scalar,
   last_seen |-> Scalar]

\* pairing.pb.thunks.cc
PairingRequestFields ==
  [initiator_id |-> Str,
   target_id |-> Str,
   public_key |-> Str,
   device_name |-> Str,
   nonce |-> Str,
   timestamp |-> Scalar]

PairingResponseFields ==
  [responder_id |-> Str,
   initiator_id |-> Str,
   public_key |-> Str,
   signed_nonce |-> Str,
   shared_secret |-> Str,
   timestamp |-> Scalar]

PairingConfirmationFields ==
  [session_id |-> Str,
   confirmation_hash |-> Str,
   timestamp |-> Scalar]

PairingStatusUpdateFields ==
  [session_id |-> Str,
   status |-> Scalar,
   error_message |-> Str,
   timestamp |-> Scalar]

UnpairingRequestFields ==
  [device_id |-> Str,
   reason |-> Str,
   signature |-> Str]

\* sync.pb.thunks.cc
ClipboardDataFields ==
  [data_id |-> Str,
   type |-> Scalar,
   content |-> Str,
   metadata |-> MapField,
   created_at |-> Scalar,
   expires_at |-> Scalar,
   source_app |-> Str]

DataChunkFields ==
  [data_id |-> Str,
   chunk_index |-> Scalar,
   total_chunks |-> Scalar,
   chunk_data |-> Str,
   checksum |-> Str]

SyncMessageFields ==
  [device_id |-> Str,
   operation |-> Scalar,
   data |-> SubMessage("ClipboardData"),
   chunks |-> Repeated,
   timestamp |-> Scalar,
   signature |-> Str]

SyncAckFields ==
  [data_id |-> Str,
   success |-> Scalar,
   error_message |-> Str,
   timestamp |-> Scalar]

SyncStatusQueryFields ==
  [device_id |-> Str,
   since_timestamp |-> Scalar]

SyncStatusResponseFields ==
  [pending_data_ids |-> Repeated,
   completed_data_ids |-> Repeated,
   last_sync_timestamp |-> Scalar]

(* Every message type of the four generated files and its fields.        *)
NearclipSchema ==
  ("ErrorMessage" :> ErrorMessageFields)
  @@ ("Heartbeat" :> HeartbeatFields)
  @@ ("HeartbeatAck" :> HeartbeatAckFields)
  @@ ("ProtocolVersion" :> ProtocolVersionFields)
  @@ ("CapabilityNegotiation" :> CapabilityNegotiationFields)
  @@ ("CapabilityNegotiationResponse" :> CapabilityNegotiationResponseFields)
  @@ ("DeviceBroadcast" :> DeviceBroadcastFields)
  @@ ("ScanRequest" :> ScanRequestFields)
  @@ ("ScanResponse" :> ScanResponseFields)
  @@ ("DeviceQuery" :> DeviceQueryFields)
  @@ ("DeviceQueryResponse" :> DeviceQueryResponseFields)
  @@ ("PairingRequest" :> PairingRequestFields)
  @@ ("PairingResponse" :> PairingResponseFields)
  @@ ("PairingConfirmation" :> PairingConfirmationFields)
  @@ ("PairingStatusUpdate" :> PairingStatusUpdateFields)
  @@ ("UnpairingRequest" :> UnpairingRequestFields)
  @@ ("ClipboardData" :> ClipboardDataFields)
  @@ ("DataChunk" :> DataChunkFields)
  @@ ("SyncMessage" :> SyncMessageFields)
  @@ ("SyncAck" :> SyncAckFields)
  @@ ("SyncStatusQuery" :> SyncStatusQueryFields)
  @@ ("SyncStatusResponse" :> SyncStatusResponseFields)

=============================================================================
