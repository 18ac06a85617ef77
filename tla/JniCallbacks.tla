---------------------------- MODULE JniCallbacks ----------------------------
(***************************************************************************)
(* The callback dispatcher and thread attachment of the Android bridge     *)
(* (jni_callbacks.cpp) together with library load and unload             *)
(* (JNI_OnLoad / JNI_OnUnload in nearclip_jni.cpp).                      *)
(*                                                                         *)
(* The engine raises its five events on its own native worker threads and *)
(* may also raise them on a Java thread that called into it.  A relay      *)
(* (the call_java_method_ functions) touches only the calling thread's    *)
(* JNI state: its attachment, its pending Java exception and its local    *)
(* reference table,                                                       *)
(* so each relay is one atomic step whose outcome is chosen among the     *)
(* results of the JNI calls it makes.  The only shared state, g_jvm, is   *)
(* written at load and unload, which the spec (4.1) places in phases with *)
(* no relay running.                                                      *)
(***************************************************************************)
EXTENDS Naturals

CONSTANTS
  NativeThreads,   \* engine worker threads, created outside the JVM
  JavaThreads,     \* Java threads the engine may call back on directly
  Kinds,           \* the five event kinds
  Discovered,      \* the kind relayed by call_java_method_onDeviceDiscovered
  MaxEvents        \* bound on the number of events the engine raises

ASSUME NativeThreads \cap JavaThreads = {}
ASSUME Discovered \in Kinds /\ MaxEvents \in Nat

Threads == NativeThreads \cup JavaThreads

VARIABLES
  loaded,     \* "no" before JNI_OnLoad, then "ok", "failed" or "unloaded"
  jvm,        \* g_jvm # nullptr
  attach,     \* how each thread is attached to the VM
  alive,      \* the thread has not exited
  pending,    \* a Java exception is pending on the thread
  localRefs,  \* local references the relays left in the thread's frame
  misuse,     \* threads that made a JNI call with an exception pending
  raised      \* number of events the engine raised

vars == <<loaded, jvm, attach, alive, pending, localRefs, misuse, raised>>

-----------------------------------------------------------------------------
(* JNI_OnLoad: g_jvm = vm is stored first; then GetEnv, FindClass and the *)
(* five GetStaticMethodID lookups, any of which may fail with JNI_ERR.    *)
JNI_OnLoad ==
  /\ loaded = "no"
  /\ jvm' = TRUE
  /\ loaded' \in {"ok", "failed"}
  /\ UNCHANGED <<attach, alive, pending, localRefs, misuse, raised>>

(* JNI_OnUnload: resets the engine, deletes g_context, g_jvm = nullptr.   *)
JNI_OnUnload ==
  /\ loaded = "ok"
  /\ loaded' = "unloaded"
  /\ jvm' = FALSE
  /\ UNCHANGED <<attach, alive, pending, localRefs, misuse, raised>>

-----------------------------------------------------------------------------
(* get_jni_env with attach_current_thread: GetEnv reports JNI_EDETACHED  *)
(* for a thread outside the VM, which is then attached as                 *)
(* "NearClipNativeThread"; AttachCurrentThread may fail.  The result is   *)
(* the thread's attachment afterwards, or "none" when no env is returned. *)
AttachCurrentThread(t) == IF jvm THEN {"bridge", "none"} ELSE {"none"}

GetJniEnv(t) ==
  IF ~jvm THEN {"none"}
  ELSE IF attach[t] = "detached" THEN AttachCurrentThread(t)
  ELSE {attach[t]}

\* detach_current_thread: only reached when should_detach, which no relay
\* ever sets.
DetachCurrentThread(t) == IF jvm THEN "detached" ELSE attach[t]

should_detach == FALSE

(* The exception pending when the relay returns: FindClass and NewStringUTF *)
(* failures return at once with theirs pending; after the Java call,      *)
(* ExceptionCheck / ExceptionClear clears whatever is pending.            *)
RelayPending(t, env, outcome) ==
  IF env = "none" THEN pending[t] ELSE outcome \in {"noclass", "nostr"}

\* Mutant: the two DeleteLocalRef calls after the Java call are dropped.
LocalRefsLeft_noDelete(env, outcome, freeClassOnNoStr) ==
  CASE env = "none"                                -> 0
    [] outcome = "nostr" /\ ~freeClassOnNoStr     -> 1
    [] outcome \in {"ok", "threw"}                 -> 2
    [] OTHER                                       -> 0

(* Local references a relay leaves behind: the class reference when        *)
(* NewStringUTF fails and the relay does not delete it; the success path  *)
(* deletes both the string and the class.                                 *)
LocalRefsLeft(env, outcome, freeClassOnNoStr) ==
  CASE env = "none"                                -> 0
    [] outcome = "nostr" /\ ~freeClassOnNoStr     -> 1
    [] OTHER                                       -> 0

(* One relay of event kind k on thread t.  The outcome of FindClass,       *)
(* NewStringUTF and the Java callback itself is chosen from:              *)
(*   "noclass"  FindClass fails, a NoClassDefFoundError is left pending;   *)
(*   "nostr"    NewStringUTF fails, an OutOfMemoryError is left pending;   *)
(*   "ok"       the callback returns normally;                            *)
(*   "threw"    the callback throws, then the exception is cleared.        *)
(* clearFirst: the relay clears a pending exception on entry (only         *)
(* onDeviceDiscovered does).  freeClassOnNoStr: the "nostr" path deletes  *)
(* the class reference (all relays but onDeviceDiscovered).               *)
RelayStep(t, clearFirst, freeClassOnNoStr) ==
  \E env \in GetJniEnv(t), outcome \in {"noclass", "nostr", "ok", "threw"} :
    LET pend0 == pending[t] /\ ~clearFirst
        leak  == LocalRefsLeft(env, outcome, freeClassOnNoStr)
    IN
    /\ attach' = [attach EXCEPT ![t] =
                    IF env = "none" THEN @
                    ELSE IF should_detach THEN DetachCurrentThread(t) ELSE env]
    /\ pending' = [pending EXCEPT ![t] = RelayPending(t, env, outcome)]
    /\ misuse' = IF env # "none" /\ pend0 THEN misuse \cup {t} ELSE misuse
    /\ localRefs' = [localRefs EXCEPT ![t] = @ + leak]

\* call_java_method_onDeviceDiscovered
RelayDeviceDiscovered(t) == RelayStep(t, TRUE, FALSE)

\* call_java_method_onDiscoveryStateChanged / onConnectionChanged /
\* onClipboardDataReceived / onError
RelayOther(t) == RelayStep(t, FALSE, TRUE)

(* The engine raises event k on a live thread of its choosing.            *)
Raise(t, k) ==
  /\ loaded \in {"ok", "unloaded"}
  /\ alive[t]
  /\ raised < MaxEvents
  /\ raised' = raised + 1
  /\ IF k = Discovered THEN RelayDeviceDiscovered(t) ELSE RelayOther(t)
  /\ UNCHANGED <<loaded, jvm, alive>>

(* An engine worker thread finishes (its thread function returns).        *)
ThreadExit(t) ==
  /\ t \in NativeThreads
  /\ alive[t]
  /\ alive' = [alive EXCEPT ![t] = FALSE]
  /\ UNCHANGED <<loaded, jvm, attach, pending, localRefs, misuse, raised>>

Init ==
  /\ loaded = "no"
  /\ jvm = FALSE
  /\ attach = [t \in Threads |-> IF t \in JavaThreads THEN "host" ELSE "detached"]
  /\ alive = [t \in Threads |-> TRUE]
  /\ pending = [t \in Threads |-> FALSE]
  /\ localRefs = [t \in Threads |-> 0]
  /\ misuse = {}
  /\ raised = 0

Next ==
  \/ JNI_OnLoad
  \/ JNI_OnUnload
  \/ \E t \in Threads, k \in Kinds : Raise(t, k)
  \/ \E t \in Threads : ThreadExit(t)

Spec == Init /\ [][Next]_vars

-----------------------------------------------------------------------------
(* Properties                                                              *)

TypeOK ==
  /\ loaded \in {"no", "ok", "failed", "unloaded"}
  /\ jvm \in BOOLEAN
  /\ attach \in [Threads -> {"detached", "host", "bridge"}]
  /\ alive \in [Threads -> BOOLEAN]
  /\ pending \in [Threads -> BOOLEAN]
  /\ localRefs \in [Threads -> 0..MaxEvents]
  /\ misuse \subseteq Threads
  /\ raised \in 0..MaxEvents

(* Spec 4.1: threads the bridge attached are released again, so no engine  *)
(* thread ever finishes while still attached to the VM (ART aborts the    *)
(* process when an attached native thread exits).                        *)
NoExitWhileAttached ==
  \A t \in NativeThreads : ~alive[t] => attach[t] # "bridge"

(* Spec 7: a pending exception is cleared after every boundary crossing,   *)
(* so no relay ever calls FindClass with an exception already pending.    *)
NoJniCallWithPendingException ==
  misuse = {}

(* Every local reference a relay creates is deleted before it returns:    *)
(* on an attached native thread nothing else frees them, so any leak      *)
(* accumulates until the local reference table overflows.                 *)
LocalRefsBalanced ==
  \A t \in NativeThreads : localRefs[t] = 0

=============================================================================
