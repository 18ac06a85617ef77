----------------------------- MODULE JniBridge -----------------------------
(***************************************************************************)
(* The Android bridge as one system: the lifecycle and command entry       *)
(* points of nearclip_jni.cpp (JniCore) running on host threads, the      *)
(* event relays of jni_callbacks.cpp (JniCallbacks) running on engine     *)
(* worker threads and, synchronously, on a host thread that is inside a   *)
(* call on the engine, and library load and unload around both.          *)
(*                                                                         *)
(* The two components share the host threads' JNI state (the pending      *)
(* exception, the JNI calls made with one pending) and the engine: the    *)
(* engine can only raise an event whose callback setup_callbacks set on  *)
(* it, and only while it is alive.  getLocalDeviceInfo's construction of  *)
(* its Java result, which JniCore abstracts, is modelled here, because it *)
(* is the one command that makes JNI calls after the engine returns.      *)
(***************************************************************************)
EXTENDS Naturals, Sequences, FiniteSets

CONSTANTS
  HostThreads,     \* Java threads calling the native methods
  NativeThreads,   \* engine worker threads
  Engines, Refs, Setters, NoEngine, NoRef,
  MaxEvents        \* bound on the events the engine raises

VARIABLES
  core, context, engState, wired, refState, pc, newEng, oldEng, callee,
  setIdx, chars, initRet,
  loaded, jvm, attach, alive, pending, localRefs, misuse, raised,
  cmd        \* the command a host thread is executing: "info" for
             \* getLocalDeviceInfo, "other" for the other five

C  == INSTANCE JniCore WITH Threads <- HostThreads
CB == INSTANCE JniCallbacks WITH JavaThreads <- HostThreads,
                                 Kinds <- C!Kinds,
                                 Discovered <- Setters[1]

coreVars == <<core, context, engState, wired, refState, pc, newEng, oldEng,
             callee, setIdx, chars, initRet>>
cbVars   == <<loaded, jvm, attach, alive, pending, localRefs, misuse, raised>>
vars     == <<coreVars, cbVars, cmd>>

-----------------------------------------------------------------------------
(* A native method runs on host thread t: only once the library is loaded, *)
(* and never entered with an exception pending (the JVM throws a pending  *)
(* exception into the Java caller before it can call again).  The steps   *)
(* are JniCore's, with the command in flight recorded; commands other     *)
(* than getLocalDeviceInfo return through JniCore's CmdReturn, whose      *)
(* ReleaseStringUTFChars JNI allows with an exception pending.            *)
HostStep(t) ==
  /\ loaded = "ok"
  /\ ~(pc[t] = "idle" /\ pending[t])
  /\ \/ /\ \/ C!InitDelCtx(t) \/ C!InitNewCtx(t) \/ C!InitMake(t)
           \/ C!InitLoad(t) \/ C!InitStore(t) \/ C!InitCall(t)
           \/ C!InitReturn(t) \/ C!SetupCheck(t) \/ C!SetterCall(t)
           \/ C!SetterReturn(t) \/ C!CleanupLoad(t) \/ C!CleanupFree(t)
           \/ C!CleanupCtx(t) \/ C!CmdCall(t)
           \/ cmd[t] = "other" /\ C!CmdReturn(t)
        /\ UNCHANGED cmd
     \/ /\ \/ C!startDeviceDiscovery(t) \/ C!stopDeviceDiscovery(t)
           \/ C!connectToDevice(t) \/ C!disconnectFromDevice(t)
           \/ C!sendClipboardData(t)
        /\ cmd' = [cmd EXCEPT ![t] = "other"]
     \/ /\ C!getLocalDeviceInfo(t)
        /\ cmd' = [cmd EXCEPT ![t] = "info"]
  /\ UNCHANGED cbVars

(* getLocalDeviceInfo once get_local_device_info returns: FindClass,       *)
(* GetMethodID, four NewStringUTF, NewObject, four DeleteLocalRef, and no *)
(* ExceptionCheck anywhere.  Outcomes:                                    *)
(*   "noclass"  FindClass returns NULL with NoClassDefFoundError pending, *)
(*              and GetMethodID on the NULL class aborts the process;    *)
(*   "nostr"    a NewStringUTF fails with OutOfMemoryError pending, and  *)
(*              the later NewStringUTF and NewObject calls are made with *)
(*              it pending;                                               *)
(*   "ok"       every call succeeds.                                      *)
(* Any of these calls made with an exception already pending (one a relay *)
(* on this thread left) is a JNI call with an exception pending.          *)
InfoReturn(t) ==
  /\ loaded = "ok"
  /\ pc[t] = "m_in"
  /\ cmd[t] = "info"
  /\ \E outcome \in {"noclass", "nostr", "ok"} :
       /\ pc' = [pc EXCEPT ![t] = IF outcome = "noclass" THEN "segv" ELSE "idle"]
       /\ pending' = [pending EXCEPT ![t] = @ \/ outcome # "ok"]
       /\ misuse' = IF pending[t] \/ outcome # "ok" THEN misuse \cup {t}
                                                   ELSE misuse
  /\ callee' = [callee EXCEPT ![t] = NoEngine]
  /\ UNCHANGED <<core, context, engState, wired, refState, newEng, oldEng,
                 setIdx, chars, initRet, loaded, jvm, attach, alive, localRefs,
                 raised, cmd>>

(* connectToDevice, disconnectFromDevice and sendClipboardData called with *)
(* a null string: ART's GetStringUTFChars returns NULL for it, with no     *)
(* exception (JniCore models only a non-null argument), and nothing checks *)
(* the pointer.  With no engine the handler releases it (delete[] of NULL) *)
(* and returns false; otherwise std::string is constructed from the null   *)
(* pointer, a null dereference that kills the process.                    *)
UTFCharsFail(t) ==
  /\ loaded = "ok"
  /\ pc[t] = "idle"
  /\ ~pending[t]
  /\ pc' = [pc EXCEPT ![t] = IF core = NoEngine THEN "idle" ELSE "segv"]
  /\ initRet' = [initRet EXCEPT ![t] = "none"]
  /\ cmd' = [cmd EXCEPT ![t] = "other"]
  /\ UNCHANGED <<core, context, engState, wired, refState, newEng, oldEng,
                 callee, setIdx, chars, loaded, jvm, attach, alive, pending,
                 localRefs, misuse, raised>>

(* The Java caller of a native method that returned with an exception      *)
(* pending receives that exception.                                        *)
JavaThrow(t) ==
  /\ pc[t] = "idle"
  /\ pending[t]
  /\ pending' = [pending EXCEPT ![t] = FALSE]
  /\ UNCHANGED <<coreVars, loaded, jvm, attach, alive, localRefs, misuse,
                 raised, cmd>>

-----------------------------------------------------------------------------
(* An engine raises event k only through the callback setup_callbacks set  *)
(* on it, and only while it is alive.  On a host thread it does so from    *)
(* inside the bridge's call on it (initialize, a setter, or a command);    *)
(* on a worker thread, at any time.                                       *)
Raises(e, k) == engState[e] \in C!LiveStates /\ k \in wired[e]

HostRelay(t, k) ==
  /\ pc[t] \in C!InEngine
  /\ Raises(callee[t], k)
  /\ CB!Raise(t, k)
  /\ UNCHANGED <<coreVars, cmd>>

WorkerRelay(t, k) ==
  /\ \E e \in Engines : Raises(e, k)
  /\ CB!Raise(t, k)
  /\ UNCHANGED <<coreVars, cmd>>

WorkerExit(t) ==
  /\ CB!ThreadExit(t)
  /\ UNCHANGED <<coreVars, cmd>>

LibraryLoad ==
  /\ CB!JNI_OnLoad
  /\ UNCHANGED <<coreVars, cmd>>

\* Mutant: the engine is not reset at unload.
JNI_OnUnload_keepEngine ==
  /\ \A t \in HostThreads : pc[t] = "idle"
  /\ CB!JNI_OnUnload
  /\ IF context # NoRef THEN C!DeleteRef(context) ELSE UNCHANGED refState
  /\ UNCHANGED <<core, context, engState, wired, pc, newEng, oldEng, callee,
                 setIdx, chars, initRet, cmd>>

(* JNI_OnUnload: if (g_nearclip_core) reset(); if (g_context) delete it   *)
(* (through the env GetEnv returns, which succeeds: the VM calls OnUnload *)
(* on an attached thread); g_jvm = nullptr.  g_context is not nulled.     *)
(* The VM unloads the library only with its class loader collected, so no *)
(* host thread is inside one of its native methods.                       *)
JNI_OnUnload ==
  /\ \A t \in HostThreads : pc[t] = "idle"
  /\ CB!JNI_OnUnload
  /\ core' = NoEngine
  /\ IF core # NoEngine THEN C!Free(core) ELSE UNCHANGED engState
  /\ IF context # NoRef THEN C!DeleteRef(context) ELSE UNCHANGED refState
  /\ UNCHANGED <<context, wired, pc, newEng, oldEng, callee, setIdx, chars,
                 initRet, cmd>>

-----------------------------------------------------------------------------
Init ==
  /\ C!Init
  /\ CB!Init
  /\ cmd = [t \in HostThreads |-> "none"]

Next ==
  \/ LibraryLoad
  \/ JNI_OnUnload
  \/ \E t \in HostThreads : HostStep(t) \/ UTFCharsFail(t) \/ InfoReturn(t)
                            \/ JavaThrow(t)
  \/ \E t \in HostThreads, k \in C!Kinds : HostRelay(t, k)
  \/ \E t \in NativeThreads, k \in C!Kinds : WorkerRelay(t, k)
  \/ \E t \in NativeThreads : WorkerExit(t)

Spec == Init /\ [][Next]_vars

-----------------------------------------------------------------------------
(* Properties                                                              *)

TypeOK ==
  /\ C!TypeOK
  /\ CB!TypeOK
  /\ cmd \in [HostThreads -> {"none", "info", "other"}]

(* Unloading the library releases everything the bridge holds: once        *)
(* JNI_OnUnload has run, whatever sequence of initialize, cleanup,        *)
(* commands and events came before, no engine is alive and no global      *)
(* reference is live.                                                      *)
UnloadReleasesAll ==
  loaded = "unloaded" => C!LiveEngines = {} /\ C!LiveRefs = {}

(* Spec 7: a boundary fault never crosses into the host: no native method  *)
(* returns to its Java caller with an exception pending, whether a relay  *)
(* the engine made on the caller's thread raised it or the command's own  *)
(* JNI calls did.                                                          *)
NoExceptionEscapes ==
  \A t \in HostThreads : pc[t] = "idle" => ~pending[t]

(* Spec 7: command failures surface as false or an absent result: no host  *)
(* thread's call into the bridge aborts the process.                      *)
CommandFailuresContained ==
  \A t \in HostThreads : pc[t] # "segv"

=============================================================================
