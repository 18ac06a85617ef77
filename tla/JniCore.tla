------------------------------ MODULE JniCore ------------------------------
(***************************************************************************)
(* The Android JNI bridge's lifecycle controller and command facade       *)
(* (src/platform/android/app/src/main/cpp/nearclip_jni.cpp).              *)
(*                                                                         *)
(* Shared state is the two unsynchronised globals g_nearclip_core (a       *)
(* std::unique_ptr<NearClipCore>) and g_context (a JNI global reference). *)
(* Every host thread runs initialize, cleanup or one of the six commands  *)
(* at the granularity of its loads and stores of those globals, so the    *)
(* interleavings of concurrent JNI calls are all explored.  The data race *)
(* on the unique_ptr is modelled by splitting reset() into its load of    *)
(* the old pointer and its store of the new one (the outcomes a build can *)
(* produce).  Engines and global references are drawn from finite pools;  *)
(* an exhausted pool is an allocation failure, which the code handles.     *)
(***************************************************************************)
EXTENDS Naturals, Sequences, FiniteSets

CONSTANTS
  Threads,      \* host (Java) threads calling into the bridge
  Engines,      \* pool of NearClipCore instances make_unique may return
  Refs,         \* pool of jobject global references NewGlobalRef may return
  Setters,      \* the callback kinds in the order setup_callbacks sets them
  NoEngine,     \* the null unique_ptr
  NoRef         \* the null jobject

ASSUME NoEngine \notin Engines /\ NoRef \notin Refs
ASSUME Setters \in Seq(STRING) /\ Len(Setters) > 0

Kinds == {Setters[i] : i \in 1..Len(Setters)}

VARIABLES
  core,       \* g_nearclip_core
  context,    \* g_context
  engState,   \* lifecycle of each engine object
  wired,      \* callback kinds set on each engine
  refState,   \* lifecycle of each global reference
  pc,         \* program counter of each host thread
  newEng,     \* initialize: the temporary unique_ptr from make_unique
  oldEng,     \* reset(): the old pointer loaded before the store
  callee,     \* the engine a thread is currently executing inside
  setIdx,     \* setup_callbacks: index of the next setter
  chars,      \* GetStringUTFChars buffer held by a command
  initRet     \* value returned by the thread's last initialize

vars == <<core, context, engState, wired, refState, pc, newEng, oldEng,
          callee, setIdx, chars, initRet>>

LiveStates == {"constructed", "ready", "failed"}
EngStates  == {"unused", "freed", "double_freed"} \cup LiveStates
RefStates  == {"unused", "live", "deleted", "double_deleted"}

\* Program counters that are inside a call on an engine object.
InEngine == {"i_in", "s_in", "m_in"}
Pcs == {"idle", "i_newctx", "i_make", "i_load", "i_store", "i_call",
        "i_check", "s_call", "c_free", "c_ctx", "m_call", "segv"} \cup InEngine

LiveEngines == {e \in Engines : engState[e] \in LiveStates}
LiveRefs    == {r \in Refs : refState[r] = "live"}

-----------------------------------------------------------------------------
(* Object lifetimes.  delete / DeleteGlobalRef on an object already       *)
(* released is undefined behaviour and is recorded, not hidden.          *)

Free(e)      == engState' = [engState EXCEPT ![e] =
                   IF @ \in LiveStates THEN "freed" ELSE "double_freed"]
DeleteRef(r) == refState' = [refState EXCEPT ![r] =
                   IF @ = "live" THEN "deleted" ELSE "double_deleted"]

Goto(t, l) == pc' = [pc EXCEPT ![t] = l]

(* A thread about to call a method through g_nearclip_core loads it: a   *)
(* null pointer crashes the process, otherwise it enters the engine.      *)
EnterEngine(t, l) ==
  /\ callee' = [callee EXCEPT ![t] = core]
  /\ Goto(t, IF core = NoEngine THEN "segv" ELSE l)

-----------------------------------------------------------------------------
(* Java_com_nearclip_ffi_NearClipFFI_initialize                           *)

\* Mutant: the old context is not deleted before a new one is pinned.
InitDelCtx_noDelete(t) ==
  /\ pc[t] = "idle"
  /\ initRet' = [initRet EXCEPT ![t] = "none"]
  /\ Goto(t, "i_newctx")
  /\ UNCHANGED <<core, context, engState, wired, refState, newEng, oldEng,
                 callee, setIdx, chars>>

\* if (g_context) env->DeleteGlobalRef(g_context);   (g_context not nulled)
InitDelCtx(t) ==
  /\ pc[t] = "idle"
  /\ IF context # NoRef THEN DeleteRef(context) ELSE UNCHANGED refState
  /\ initRet' = [initRet EXCEPT ![t] = "none"]
  /\ Goto(t, "i_newctx")
  /\ UNCHANGED <<core, context, engState, wired, newEng, oldEng, callee,
                 setIdx, chars>>

\* g_context = env->NewGlobalRef(context);  NULL when out of references.
InitNewCtx(t) ==
  /\ pc[t] = "i_newctx"
  /\ \/ \E r \in Refs :
          /\ refState[r] = "unused"
          /\ refState' = [refState EXCEPT ![r] = "live"]
          /\ context' = r
     \/ /\ \A r \in Refs : refState[r] # "unused"
        /\ context' = NoRef
        /\ UNCHANGED refState
  /\ Goto(t, "i_make")
  /\ UNCHANGED <<core, engState, wired, newEng, oldEng, callee, setIdx,
                 chars, initRet>>

\* std::make_unique<NearClipCore>(): a new engine, or an exception caught
\* by the handler, which returns JNI_FALSE.
InitMake(t) ==
  /\ pc[t] = "i_make"
  /\ \/ \E e \in Engines :
          /\ engState[e] = "unused"
          /\ engState' = [engState EXCEPT ![e] = "constructed"]
          /\ newEng' = [newEng EXCEPT ![t] = e]
          /\ Goto(t, "i_load")
          /\ UNCHANGED initRet
     \/ /\ Goto(t, "idle")
        /\ initRet' = [initRet EXCEPT ![t] = "false"]
        /\ UNCHANGED <<engState, newEng>>
  /\ UNCHANGED <<core, context, wired, refState, oldEng, callee, setIdx, chars>>

\* g_nearclip_core = ...: unique_ptr move-assignment is reset(new), which
\* loads the old pointer, stores the new one, then deletes the old one.
InitLoad(t) ==
  /\ pc[t] = "i_load"
  /\ oldEng' = [oldEng EXCEPT ![t] = core]
  /\ Goto(t, "i_store")
  /\ UNCHANGED <<core, context, engState, wired, refState, newEng, callee,
                 setIdx, chars, initRet>>

\* Mutant: the new pointer is stored but the old engine is not deleted.
InitStore_noFree(t) ==
  /\ pc[t] = "i_store"
  /\ core' = newEng[t]
  /\ newEng' = [newEng EXCEPT ![t] = NoEngine]
  /\ oldEng' = [oldEng EXCEPT ![t] = NoEngine]
  /\ Goto(t, "i_call")
  /\ UNCHANGED <<context, engState, wired, refState, callee, setIdx, chars,
                 initRet>>

InitStore(t) ==
  /\ pc[t] = "i_store"
  /\ core' = newEng[t]
  /\ IF oldEng[t] # NoEngine THEN Free(oldEng[t]) ELSE UNCHANGED engState
  /\ newEng' = [newEng EXCEPT ![t] = NoEngine]
  /\ oldEng' = [oldEng EXCEPT ![t] = NoEngine]
  /\ Goto(t, "i_call")
  /\ UNCHANGED <<context, wired, refState, callee, setIdx, chars, initRet>>

\* bool result = g_nearclip_core->initialize();  (reloads the global)
InitCall(t) ==
  /\ pc[t] = "i_call"
  /\ EnterEngine(t, "i_in")
  /\ UNCHANGED <<core, context, engState, wired, refState, newEng, oldEng,
                 setIdx, chars, initRet>>

\* The engine's own initialize returns; on success setup_callbacks runs,
\* on failure the handler returns false and leaves g_nearclip_core set.
InitReturn(t) ==
  /\ pc[t] = "i_in"
  /\ \E ok \in BOOLEAN :
       /\ engState' = [engState EXCEPT ![callee[t]] =
                         IF @ \in LiveStates
                         THEN IF ok THEN "ready" ELSE "failed" ELSE @]
       /\ IF ok THEN /\ Goto(t, "i_check")
                     /\ UNCHANGED initRet
                ELSE /\ Goto(t, "idle")
                     /\ initRet' = [initRet EXCEPT ![t] = "false"]
  /\ callee' = [callee EXCEPT ![t] = NoEngine]
  /\ UNCHANGED <<core, context, wired, refState, newEng, oldEng, setIdx, chars>>

-----------------------------------------------------------------------------
(* setup_callbacks: if (!g_nearclip_core) return; then five setters, each *)
(* reloading g_nearclip_core.  initialize returns true in both cases.     *)

SetupCheck(t) ==
  /\ pc[t] = "i_check"
  /\ IF core = NoEngine
       THEN /\ Goto(t, "idle")
            /\ initRet' = [initRet EXCEPT ![t] = "true"]
            /\ UNCHANGED setIdx
       ELSE /\ Goto(t, "s_call")
            /\ setIdx' = [setIdx EXCEPT ![t] = 1]
            /\ UNCHANGED initRet
  /\ UNCHANGED <<core, context, engState, wired, refState, newEng, oldEng,
                 callee, chars>>

SetterCall(t) ==
  /\ pc[t] = "s_call"
  /\ EnterEngine(t, "s_in")
  /\ UNCHANGED <<core, context, engState, wired, refState, newEng, oldEng,
                 setIdx, chars, initRet>>

\* setIdx is the position in setup_callbacks' five straight-line setter
\* calls, in the order Setters lists them.
SetterReturn(t) ==
  /\ pc[t] = "s_in"
  /\ wired' = [wired EXCEPT ![callee[t]] = @ \cup {Setters[setIdx[t]]}]
  /\ callee' = [callee EXCEPT ![t] = NoEngine]
  /\ IF setIdx[t] < Len(Setters)
       THEN /\ Goto(t, "s_call")
            /\ setIdx' = [setIdx EXCEPT ![t] = @ + 1]
            /\ UNCHANGED initRet
       ELSE /\ Goto(t, "idle")
            /\ setIdx' = [setIdx EXCEPT ![t] = 0]
            /\ initRet' = [initRet EXCEPT ![t] = "true"]
  /\ UNCHANGED <<core, context, engState, refState, newEng, oldEng, chars>>

-----------------------------------------------------------------------------
(* Java_com_nearclip_ffi_NearClipFFI_cleanup                               *)

\* if (g_nearclip_core) g_nearclip_core.reset();  -- the load half of reset
CleanupLoad(t) ==
  /\ pc[t] = "idle"
  /\ oldEng' = [oldEng EXCEPT ![t] = core]
  /\ initRet' = [initRet EXCEPT ![t] = "none"]
  /\ Goto(t, IF core = NoEngine THEN "c_ctx" ELSE "c_free")
  /\ UNCHANGED <<core, context, engState, wired, refState, newEng, callee,
                 setIdx, chars>>

\* Mutant: the engine is deleted but g_nearclip_core is left pointing at it.
CleanupFree_keepPointer(t) ==
  /\ pc[t] = "c_free"
  /\ Free(oldEng[t])
  /\ oldEng' = [oldEng EXCEPT ![t] = NoEngine]
  /\ Goto(t, "c_ctx")
  /\ UNCHANGED <<core, context, wired, refState, newEng, callee, setIdx, chars,
                 initRet>>

\* the store-null and delete half of reset
CleanupFree(t) ==
  /\ pc[t] = "c_free"
  /\ core' = NoEngine
  /\ Free(oldEng[t])
  /\ oldEng' = [oldEng EXCEPT ![t] = NoEngine]
  /\ Goto(t, "c_ctx")
  /\ UNCHANGED <<context, wired, refState, newEng, callee, setIdx, chars,
                 initRet>>

\* if (g_context) { DeleteGlobalRef(g_context); g_context = nullptr; }
CleanupCtx(t) ==
  /\ pc[t] = "c_ctx"
  /\ IF context # NoRef THEN DeleteRef(context) ELSE UNCHANGED refState
  /\ context' = NoRef
  /\ Goto(t, "idle")
  /\ UNCHANGED <<core, engState, wired, newEng, oldEng, callee, setIdx,
                 chars, initRet>>

-----------------------------------------------------------------------------
(* The six commands share one shape: connectToDevice, disconnectFromDevice *)
(* and sendClipboardData first take the UTF chars of their string argument *)
(* (withChars); then if (!g_nearclip_core) return false, releasing the     *)
(* chars; otherwise g_nearclip_core->op(...) reloads the global and calls  *)
(* the engine.                                                             *)

CmdCheck(t, withChars) ==
  /\ pc[t] = "idle"
  /\ chars' = [chars EXCEPT ![t] = withChars /\ core # NoEngine]
  /\ Goto(t, IF core = NoEngine THEN "idle" ELSE "m_call")
  /\ initRet' = [initRet EXCEPT ![t] = "none"]
  /\ UNCHANGED <<core, context, engState, wired, refState, newEng, oldEng,
                 callee, setIdx>>

startDeviceDiscovery(t) == CmdCheck(t, FALSE)
stopDeviceDiscovery(t)  == CmdCheck(t, FALSE)
connectToDevice(t)      == CmdCheck(t, TRUE)
disconnectFromDevice(t) == CmdCheck(t, TRUE)
sendClipboardData(t)    == CmdCheck(t, TRUE)
getLocalDeviceInfo(t)   == CmdCheck(t, FALSE)

CmdCall(t) ==
  /\ pc[t] = "m_call"
  /\ EnterEngine(t, "m_in")
  /\ UNCHANGED <<core, context, engState, wired, refState, newEng, oldEng,
                 setIdx, chars, initRet>>

\* The engine returns; ReleaseStringUTFChars; getLocalDeviceInfo builds
\* its Java DeviceInfo from thread-local JNI objects only.
CmdReturn(t) ==
  /\ pc[t] = "m_in"
  /\ callee' = [callee EXCEPT ![t] = NoEngine]
  /\ chars' = [chars EXCEPT ![t] = FALSE]
  /\ Goto(t, "idle")
  /\ UNCHANGED <<core, context, engState, wired, refState, newEng, oldEng,
                 setIdx, initRet>>

-----------------------------------------------------------------------------

Init ==
  /\ core = NoEngine
  /\ context = NoRef
  /\ engState = [e \in Engines |-> "unused"]
  /\ wired = [e \in Engines |-> {}]
  /\ refState = [r \in Refs |-> "unused"]
  /\ pc = [t \in Threads |-> "idle"]
  /\ newEng = [t \in Threads |-> NoEngine]
  /\ oldEng = [t \in Threads |-> NoEngine]
  /\ callee = [t \in Threads |-> NoEngine]
  /\ setIdx = [t \in Threads |-> 0]
  /\ chars = [t \in Threads |-> FALSE]
  /\ initRet = [t \in Threads |-> "none"]

(* Every step host thread t can take. *)
Step(t) ==
    \/ InitDelCtx(t) \/ InitNewCtx(t) \/ InitMake(t) \/ InitLoad(t)
    \/ InitStore(t) \/ InitCall(t) \/ InitReturn(t)
    \/ SetupCheck(t) \/ SetterCall(t) \/ SetterReturn(t)
    \/ CleanupLoad(t) \/ CleanupFree(t) \/ CleanupCtx(t)
    \/ startDeviceDiscovery(t) \/ stopDeviceDiscovery(t)
    \/ connectToDevice(t) \/ disconnectFromDevice(t)
    \/ sendClipboardData(t) \/ getLocalDeviceInfo(t)
    \/ CmdCall(t) \/ CmdReturn(t)

Next == \E t \in Threads : Step(t)

Spec == Init /\ [][Next]_vars

-----------------------------------------------------------------------------
(* Properties                                                              *)

TypeOK ==
  /\ core \in Engines \cup {NoEngine}
  /\ context \in Refs \cup {NoRef}
  /\ engState \in [Engines -> EngStates]
  /\ wired \in [Engines -> SUBSET Kinds]
  /\ refState \in [Refs -> RefStates]
  /\ pc \in [Threads -> Pcs]
  /\ newEng \in [Threads -> Engines \cup {NoEngine}]
  /\ oldEng \in [Threads -> Engines \cup {NoEngine}]
  /\ callee \in [Threads -> Engines \cup {NoEngine}]
  /\ setIdx \in [Threads -> 0..Len(Setters)]
  /\ chars \in [Threads -> BOOLEAN]
  /\ initRet \in [Threads -> {"none", "true", "false"}]

Quiescent == \A t \in Threads : pc[t] = "idle"

(* Every call a host thread makes through g_nearclip_core (the engine's    *)
(* initialize, a callback setter, a command) lands on a live engine: no   *)
(* null dereference, no use after delete, and no engine is deleted twice. *)
(* Broken by cleanup's reset racing a command's check-then-call.          *)
EngineAccessSafe ==
  /\ \A t \in Threads :
       /\ pc[t] # "segv"
       /\ pc[t] \in InEngine => engState[callee[t]] \in LiveStates
  /\ \A e \in Engines : engState[e] # "double_freed"

(* The context pinned by initialize is the only global reference the       *)
(* bridge holds: at most one is live at any instant, none is deleted      *)
(* twice, and between calls the live one is exactly g_context.            *)
GlobalRefsSafe ==
  /\ Cardinality(LiveRefs) <= 1
  /\ \A r \in Refs : refState[r] # "double_deleted"
  /\ Quiescent => LiveRefs \subseteq {context}

(* Replacing or clearing the engine releases the previous one, and every   *)
(* command path releases its UTF chars: between calls every engine still  *)
(* alive is the one g_nearclip_core points to and no chars are pinned.    *)
NoResourceLeak ==
  Quiescent => /\ LiveEngines \subseteq {core}
               /\ \A t \in Threads : ~chars[t]

(* Spec 3 / 4.3: the old engine is destroyed before the new one is        *)
(* constructed, so at most one engine is alive at any instant.            *)
AtMostOneLiveEngine ==
  Cardinality(LiveEngines) <= 1

(* Spec 3 / 4.3: initialize returning false leaves no live engine behind, *)
(* so the commands' null check refuses them (NotInitialized).  Stated for *)
(* a single host thread, where no other call can install an engine.      *)
FailedInitLeavesNoEngine ==
  \A t \in Threads : initRet[t] = "false" => core = NoEngine

(* Refinement mapping onto EngineSlot.  The engine make_unique built and   *)
(* initialize has not yet stored is the temporary unique_ptr's, not the   *)
(* bridge's: it reads as unused until InitStore installs it.  The pinned  *)
(* context is g_context while its reference is live (initialize deletes   *)
(* it before overwriting g_context).                                       *)
SlotStatus ==
  [e \in Engines |->
     IF e # core /\ \E t \in Threads : newEng[t] = e THEN "unused"
                                                    ELSE engState[e]]

HeldContext ==
  IF context # NoRef /\ refState[context] = "live" THEN context ELSE NoRef

Slot == INSTANCE EngineSlot WITH slot <- core, status <- SlotStatus,
          pinned <- HeldContext, refs <- refState

(* Spec 3 / 4.3 for one host thread: the lifecycle the bridge runs is the  *)
(* engine-slot lifecycle.  Replacing the engine releases the old one in    *)
(* the step that installs the new one, initialize settles the installed    *)
(* engine once, setup_callbacks wires only the installed ready engine,     *)
(* cleanup releases what it clears, and a context is pinned only after the *)
(* previous one was deleted; nothing is released twice.                    *)
RefinesSlot == Slot!Spec

=============================================================================
